---- MODULE Spec2Model ----
(***************************************************************************)
(* Verification model of the assistant back end:                           *)
(*   - core/model_persistence.py : QwenModelManager (load / keep-alive /   *)
(*     idle eviction of the responder model, with a watchdog thread)       *)
(*   - core/function_executor.py : FunctionExecutor (action dispatch)      *)
(***************************************************************************)
EXTENDS Integers, Sequences, FiniteSets, TLC

(***************************************************************************)
(* Bounds of the model                                                     *)
(***************************************************************************)
\* caller threads that invoke the public interface of the manager
MaxCallers == 2
\* watchdog threads that may be started in one run
MaxWatchdogs == 2
\* the wall clock runs from 0 to MaxTime (one unit = one watchdog sleep)
MaxTime == 3
\* managers of the executor whose construction may have failed
MaxMissing == 1
\* the executor's clock runs from 0 to MaxClock ticks
MaxClock == 2
\* resolution of the executor's clock: ticks in one second
TicksPerSecond == 2
\* the phrases parsed have at most MaxPhraseLen characters
MaxPhraseLen == 4

(***************************************************************************)
(* Program constants                                                       *)
(***************************************************************************)
\* time.sleep(10): the watchdog sleeps one clock unit between checks
CHECK_INTERVAL == 1
\* QWEN_TIMEOUT_SECONDS (imported from config), in clock units
QWEN_TIMEOUT_SECONDS == 2

\* None for an Optional[float] / Optional[Thread]
NoTime == -1
NoThread == 0

Callers == 1..MaxCallers
Watchdogs == (MaxCallers + 1)..(MaxCallers + MaxWatchdogs)
Threads == Callers \cup Watchdogs

\* names are sequences of characters; RESPONDER_MODEL is the managed model
RESPONDER_MODEL == <<"q", "w">>
\* names the backend may report as running
BackendNames == { <<"q", "w">>, <<"q", "w", "8">>, <<"g">> }

VARIABLES
  \* ---- QwenModelManager fields
  is_loaded,        \* self.is_loaded
  last_used_time,   \* self.last_used_time (NoTime = None)
  monitoring,       \* self.monitoring
  timeout_thread,   \* self.timeout_thread (NoThread = None)
  lock,             \* self.lock: NoThread when free, else the holder
  \* ---- threads
  pc,               \* position of every thread
  op,               \* public operation a caller thread is executing
  outer,            \* the method that called the method now executing
  running,          \* running_models, the local of ensure_loaded
  response,         \* backend answer to the pending load request
  io,               \* backend requests issued so far by the running call
  sleepLeft,        \* time a sleeping watchdog still has to sleep
  \* ---- environment and history
  now,              \* time.time()
  last,             \* the call that returned in the last step: method,
                    \* result, backend requests (NoCall after any other step)
  loadsSinceUnload  \* accepted load requests since the session was Unloaded

qvars == <<is_loaded, last_used_time, monitoring, timeout_thread, lock,
           pc, op, outer, running, response, io, sleepLeft, now, last, loadsSinceUnload>>

VARIABLES
  \* ---- FunctionExecutor fields (TRUE: the manager is set, FALSE: None)
  task_manager,     \* self.task_manager
  calendar_manager, \* self.calendar_manager
  kasa_manager,     \* self.kasa_manager
  weather_manager,  \* self.weather_manager
  news_manager,     \* self.news_manager
  devices,          \* self.kasa_manager.devices: cached ids in dict order
  active_timers,    \* self.active_timers: the ActiveTimers in dict order
  event_loop,       \* the event loop the last control_light ran on
  pending_timer,    \* the ActiveTimer that a second thread in _set_timer
                    \* has built and not yet stored (NoTimer: none)
  duration_text,    \* the duration_str passed to _parse_duration
  parsed,           \* what _parse_duration returned (NotParsed: no call)
  timer_lock,       \* self._timer_lock: "free", or the thread that holds it
  light_pc,         \* a thread in control_light: where it is, since when
  info_pc,          \* a thread in get_system_info: where it is
  \* ---- environment and history
  clock,            \* time.time() as read by the executor, in ticks
  request,          \* the last call of execute: func_name and params
  result,           \* what that call returned
  exception,        \* the exception that ended its handler, and who caught it
  calls             \* the collaborator calls it made, in order

VARIABLES
  \* ---- SettingsStore (core/settings_store.py)
  settings,         \* self._settings: the dict, nested dicts by reference
  objects,          \* the nested dict objects, those of DEFAULT_SETTINGS
                    \* included
  settings_file,    \* what ~/.pocket_ai/settings.json holds
  setting_changed,  \* the last setting_changed signal: key path and value
  settings_call,    \* the last call of the store
  returned          \* what the last get returned

\* the timer lock and the threads of the executor that take their steps
\* one by one
tvars == <<timer_lock, light_pc, info_pc>>

\* the settings store
svars == <<settings, objects, settings_file, setting_changed, settings_call,
           returned>>

evars == <<task_manager, calendar_manager, kasa_manager, weather_manager,
           news_manager, devices, active_timers, event_loop, pending_timer,
           duration_text, parsed, tvars, svars, clock, request, result,
           exception, calls>>

vars == <<qvars, evars>>

(***************************************************************************)
(* Pure helpers                                                            *)
(***************************************************************************)
\* Python: sub in s   (substring containment on sequences of characters)
Contains(s, sub) ==
  \E i \in 0..(Len(s) - Len(sub)) :
    \A j \in 1..Len(sub) : s[i + j] = sub[j]

\* model_persistence.py:38
\*   self.model_name in running_models or
\*   any(self.model_name in m for m in running_models)
IsRunning(running_models) ==
  \/ RESPONDER_MODEL \in running_models
  \/ \E m \in running_models : Contains(m, RESPONDER_MODEL)

\* watchdog ids not yet used for a thread
Unborn == { w \in Watchdogs : pc[w] = "unborn" }
NextWatchdog == CHOOSE w \in Unborn : \A v \in Unborn : w <= v

\* calls in flight that may still start a watchdog
Spawners == { t \in Callers : pc[t] # "idle" /\ op[t] \in {"ensure_loaded", "mark_used"} }

\* no call returned in the last step
NoCall == [op |-> "none", ret |-> "None", exc |-> FALSE, io |-> {}]

\* a step that is not the return of a call
NoReturn == last' = NoCall

(***************************************************************************)
(* QwenModelManager.__init__                                               *)
(***************************************************************************)
QwenInit ==
  /\ is_loaded = FALSE
  /\ last_used_time = NoTime
  /\ monitoring = FALSE
  /\ timeout_thread = NoThread
  /\ lock = NoThread
  /\ pc = [t \in Threads |-> IF t \in Callers THEN "idle" ELSE "unborn"]
  /\ op = [t \in Threads |-> "none"]
  /\ outer = [t \in Threads |-> "none"]
  /\ running = [t \in Threads |-> {}]
  /\ response = [t \in Threads |-> "none"]
  /\ io = [t \in Threads |-> {}]
  /\ sleepLeft = [t \in Threads |-> 0]
  /\ now = 0
  /\ last = NoCall
  /\ loadsSinceUnload = 0

(***************************************************************************)
(* threading.Lock: `with self.lock:` entry                                 *)
(***************************************************************************)
LockPCs == {"el_lock", "mu_lock", "ul_lock", "wd_lock", "cs_lock"}

AfterLock(p) ==
  CASE p = "el_lock" -> "el_check"
    [] p = "mu_lock" -> "mu_body"
    [] p = "ul_lock" -> "ul_check"
    [] p = "wd_lock" -> "wd_check"
    [] p = "cs_lock" -> "cs_body"

\* (mutant) a lock that never makes anybody wait
LockFreeFor_Broken(t) == TRUE

\* threading.Lock is not reentrant: while held it is free for nobody, its
\* holder included
LockFreeFor(t) == lock = NoThread

Acquire(t) ==
  /\ pc[t] \in LockPCs
  /\ LockFreeFor(t)
  /\ lock' = t
  /\ pc' = [pc EXCEPT ![t] = AfterLock(pc[t])]
  /\ UNCHANGED <<is_loaded, last_used_time, monitoring, timeout_thread, op,
                 outer, running, response, io, sleepLeft, now,
                 loadsSinceUnload>>
  /\ NoReturn
  /\ UNCHANGED evars

\* where a method returns to: the public caller, or the method that called it
ReturnPC(t) ==
  CASE outer[t] = "none" -> "idle"
    [] outer[t] = "mark_used" -> "mu_return"
    [] outer[t] = "watchdog" -> "wd_return"


\* thread t returns r (x: a backend request of the call raised and the
\* exception was swallowed): the call is recorded with the backend requests
\* it issued, and the thread's call frame is dropped
Return(t, r, x, reqs) ==
  /\ last' = [op |-> op[t], ret |-> r, exc |-> x, io |-> reqs]
  /\ op' = [op EXCEPT ![t] = "none"]
  /\ outer' = [outer EXCEPT ![t] = "none"]
  /\ running' = [running EXCEPT ![t] = {}]
  /\ response' = [response EXCEPT ![t] = "none"]
  /\ io' = [io EXCEPT ![t] = {}]

(***************************************************************************)
(* _start_timeout_monitor (lines 101-115): sets the flag and starts a new  *)
(* thread; a thread started earlier is not stopped                         *)
(***************************************************************************)
\* lines 105-108: what happens to a watchdog w started earlier, now at p
EarlierWatchdog(w, p) == p

\* the pc of every thread after thread t started a watchdog and went to newpc
PcAfterStart(t, newpc) ==
  [x \in Threads |->
     IF x = t THEN newpc
     ELSE IF x = NextWatchdog THEN "wd_while"
     ELSE IF x \in Watchdogs THEN EarlierWatchdog(x, pc[x])
     ELSE pc[x]]

StartTimeoutMonitor(t, newpc) ==
  /\ Unborn # {}
  /\ monitoring' = TRUE
  /\ timeout_thread' = NextWatchdog
  /\ pc' = PcAfterStart(t, newpc)

(***************************************************************************)
(* Public interface: a caller thread enters one of the four methods        *)
(***************************************************************************)
\* a call that may start a watchdog needs a thread id left for it
CanSpawn == Cardinality(Unborn) > Cardinality(Spawners)

Enter(t, name, first) ==
  /\ pc[t] = "idle"
  /\ pc' = [pc EXCEPT ![t] = first]
  /\ op' = [op EXCEPT ![t] = name]
  /\ UNCHANGED <<is_loaded, last_used_time, monitoring, timeout_thread, lock,
                 outer, running, response, io, sleepLeft, now,
                 loadsSinceUnload>>
  /\ NoReturn
  /\ UNCHANGED evars

CallEnsureLoaded(t) == CanSpawn /\ Enter(t, "ensure_loaded", "el_lock")
CallMarkUsed(t) == CanSpawn /\ Enter(t, "mark_used", "mu_lock")
CallUnload(t) == Enter(t, "unload", "ul_lock")
CallCheckStatus(t) == Enter(t, "check_status", "cs_lock")

(***************************************************************************)
(* ensure_loaded (lines 28-73)                                             *)
(***************************************************************************)
\* (mutant) the test of line 31 is missing
FastPath_Broken == FALSE

\* line 31: the fast path is taken when the session is already Loaded
FastPath == is_loaded

ElCheck(t) ==
  /\ pc[t] = "el_check"
  /\ IF FastPath
     THEN /\ last_used_time' = now
          /\ lock' = NoThread
          /\ pc' = [pc EXCEPT ![t] = ReturnPC(t)]
          /\ Return(t, "True", FALSE, io[t])
     ELSE /\ pc' = [pc EXCEPT ![t] = "el_query"]
          /\ UNCHANGED <<last_used_time, lock, op, outer, running, response,
                         io>>
          /\ NoReturn
  /\ UNCHANGED <<is_loaded, monitoring, timeout_thread, sleepLeft, now,
                 loadsSinceUnload>>
  /\ UNCHANGED evars

\* line 37: get_running_models() asks the backend which models run
ElQuery(t) ==
  /\ pc[t] = "el_query"
  /\ \E running_models \in SUBSET BackendNames :
       running' = [running EXCEPT ![t] = running_models]
  /\ io' = [io EXCEPT ![t] = @ \cup {"query"}]
  /\ pc' = [pc EXCEPT ![t] = "el_running"]
  /\ UNCHANGED <<is_loaded, last_used_time, monitoring, timeout_thread, lock,
                 op, outer, response, sleepLeft, now, loadsSinceUnload>>
  /\ NoReturn
  /\ UNCHANGED evars

\* (mutant) only the exact name is looked for
Adopts_Broken(running_models) == RESPONDER_MODEL \in running_models

\* line 38: a model the backend reports as running is adopted
Adopts(running_models) == IsRunning(running_models)

\* (mutant) the session is marked Loaded and the time of use is not written
StampOnLoad_Broken == last_used_time
\* lines 41 and 62: self.last_used_time = time.time(), written right after
\* self.is_loaded = True with the lock held
StampOnLoad == now

\* lines 38-43: adopt a running model, else go on to load it
ElRunning(t) ==
  /\ pc[t] = "el_running"
  /\ IF Adopts(running[t])
     THEN /\ is_loaded' = TRUE
          /\ last_used_time' = StampOnLoad
          /\ StartTimeoutMonitor(t, ReturnPC(t))
          /\ lock' = NoThread
          /\ Return(t, "True", FALSE, io[t])
     ELSE /\ pc' = [pc EXCEPT ![t] = "el_load"]
          /\ running' = [running EXCEPT ![t] = {}]
          /\ UNCHANGED <<is_loaded, last_used_time, monitoring,
                         timeout_thread, lock, op, outer, response, io>>
          /\ NoReturn
  /\ UNCHANGED <<sleepLeft, now, loadsSinceUnload>>
  /\ UNCHANGED evars

\* lines 46-58: the load request is sent; the backend answers 200, another
\* status, or the request raises
LoadAnswers == {"200", "500", "raise"}

ElLoad(t) ==
  /\ pc[t] = "el_load"
  /\ \E answer \in LoadAnswers :
       response' = [response EXCEPT ![t] = answer]
  /\ io' = [io EXCEPT ![t] = @ \cup {"load"}]
  /\ pc' = [pc EXCEPT ![t] = "el_resp"]
  /\ UNCHANGED <<is_loaded, last_used_time, monitoring, timeout_thread, lock,
                 op, outer, running, sleepLeft, now, loadsSinceUnload>>
  /\ NoReturn
  /\ UNCHANGED evars

\* (mutant) the status code is not looked at
LoadSucceeded_Broken(answer) == answer # "raise"

\* line 60: response.status_code == 200
LoadSucceeded(answer) == answer = "200"

\* lines 60-73: the answer is handled
ElResp(t) ==
  /\ pc[t] = "el_resp"
  /\ IF LoadSucceeded(response[t])
     THEN /\ is_loaded' = TRUE
          /\ last_used_time' = StampOnLoad
          /\ StartTimeoutMonitor(t, ReturnPC(t))
          /\ loadsSinceUnload' = loadsSinceUnload + 1
          /\ Return(t, "True", FALSE, io[t])
     ELSE /\ pc' = [pc EXCEPT ![t] = ReturnPC(t)]
          /\ Return(t, "False", response[t] = "raise", io[t])
          /\ UNCHANGED <<is_loaded, last_used_time, monitoring,
                         timeout_thread, loadsSinceUnload>>
  /\ lock' = NoThread
  /\ UNCHANGED <<sleepLeft, now>>
  /\ UNCHANGED evars

(***************************************************************************)
(* mark_used (lines 75-83)                                                 *)
(***************************************************************************)
MuBody(t) ==
  /\ pc[t] = "mu_body"
  /\ last_used_time' = now
  /\ IF ~is_loaded
     THEN \* line 80: self.ensure_loaded() is called with self.lock held
          /\ pc' = [pc EXCEPT ![t] = "el_lock"]
          /\ outer' = [outer EXCEPT ![t] = "mark_used"]
          /\ UNCHANGED <<monitoring, timeout_thread, lock, op, running,
                         response, io>>
          /\ NoReturn
     ELSE IF monitoring
     THEN /\ StartTimeoutMonitor(t, "idle")
          /\ lock' = NoThread
          /\ Return(t, "None", FALSE, io[t])
     ELSE /\ pc' = [pc EXCEPT ![t] = "idle"]
          /\ lock' = NoThread
          /\ Return(t, "None", FALSE, io[t])
          /\ UNCHANGED <<monitoring, timeout_thread>>
  /\ UNCHANGED <<is_loaded, sleepLeft, now, loadsSinceUnload>>
  /\ UNCHANGED evars

(***************************************************************************)
(* unload (lines 85-99)                                                    *)
(***************************************************************************)
\* (mutant) the test of line 88 is missing
AlreadyUnloaded_Broken == FALSE
\* line 88: `if not self.is_loaded: return`
AlreadyUnloaded == ~is_loaded

UlCheck(t) ==
  /\ pc[t] = "ul_check"
  /\ IF AlreadyUnloaded
     THEN /\ lock' = NoThread
          /\ pc' = [pc EXCEPT ![t] = ReturnPC(t)]
          /\ Return(t, "None", FALSE, io[t])
     ELSE /\ pc' = [pc EXCEPT ![t] = "ul_req"]
          /\ UNCHANGED <<lock, op, outer, running, response, io>>
          /\ NoReturn
  /\ UNCHANGED <<is_loaded, last_used_time, monitoring, timeout_thread,
                 sleepLeft, now, loadsSinceUnload>>
  /\ UNCHANGED evars

\* line 93: sync_unload_model returns, or raises into the except of line 98
UnloadAnswers == {"ok", "raise"}

\* (mutant) the session is left as it was
UnloadClears_Broken(answer) == FALSE

\* lines 94-96 are reached only when sync_unload_model did not raise
UnloadClears(answer) == answer = "ok"

UlReq(t) ==
  /\ pc[t] = "ul_req"
  /\ \E answer \in UnloadAnswers :
       /\ IF UnloadClears(answer)
          THEN /\ is_loaded' = FALSE
               /\ last_used_time' = NoTime
               /\ monitoring' = FALSE
               /\ loadsSinceUnload' = 0
          ELSE UNCHANGED <<is_loaded, last_used_time, monitoring,
                           loadsSinceUnload>>
       /\ Return(t, "None", answer = "raise", io[t] \cup {"unload"})
  /\ lock' = NoThread
  /\ pc' = [pc EXCEPT ![t] = ReturnPC(t)]
  /\ UNCHANGED <<timeout_thread, sleepLeft, now>>
  /\ UNCHANGED evars

(***************************************************************************)
(* check_status (lines 136-149)                                            *)
(***************************************************************************)
CsBody(t) ==
  /\ pc[t] = "cs_body"
  /\ lock' = NoThread
  /\ pc' = [pc EXCEPT ![t] = "idle"]
  /\ Return(t, "None", FALSE, io[t] \cup {"query"})
  /\ UNCHANGED <<is_loaded, last_used_time, monitoring, timeout_thread,
                 sleepLeft, now, loadsSinceUnload>>
  /\ UNCHANGED evars

(***************************************************************************)
(* _timeout_monitor_loop (lines 117-134)                                   *)
(***************************************************************************)
\* line 119: `while self.monitoring`, read without the lock
WdWhile(w) ==
  /\ pc[w] = "wd_while"
  /\ IF monitoring
     THEN /\ pc' = [pc EXCEPT ![w] = "wd_sleep"]
          /\ sleepLeft' = [sleepLeft EXCEPT ![w] = CHECK_INTERVAL]
     ELSE /\ pc' = [pc EXCEPT ![w] = "dead"]
          /\ sleepLeft' = sleepLeft
  /\ UNCHANGED <<is_loaded, last_used_time, monitoring, timeout_thread, lock,
                 op, outer, running, response, io, now, loadsSinceUnload>>
  /\ NoReturn
  /\ UNCHANGED evars

\* line 120: time.sleep(10) is over
WdWake(w) ==
  /\ pc[w] = "wd_sleep"
  /\ sleepLeft[w] = 0
  /\ pc' = [pc EXCEPT ![w] = "wd_lock"]
  /\ UNCHANGED <<is_loaded, last_used_time, monitoring, timeout_thread, lock,
                 op, outer, running, response, io, sleepLeft, now,
                 loadsSinceUnload>>
  /\ NoReturn
  /\ UNCHANGED evars

\* (mutant) the wake cycle does not look at the flag or at the session
WatchdogStops_Broken(w) == FALSE
\* line 123: the watchdog gives up when the flag is down or nothing is loaded
WatchdogStops(w) == ~monitoring \/ ~is_loaded

\* lines 123-127: break, continue, or go on to the timeout check
WdCheck(w) ==
  /\ pc[w] = "wd_check"
  /\ IF WatchdogStops(w)
     THEN /\ pc' = [pc EXCEPT ![w] = "dead"]
          /\ lock' = NoThread
     ELSE IF last_used_time = NoTime
     THEN /\ pc' = [pc EXCEPT ![w] = "wd_while"]
          /\ lock' = NoThread
     ELSE /\ pc' = [pc EXCEPT ![w] = "wd_elapsed"]
          /\ lock' = lock
  /\ UNCHANGED <<is_loaded, last_used_time, monitoring, timeout_thread, op,
                 outer, running, response, io, sleepLeft, now,
                 loadsSinceUnload>>
  /\ NoReturn
  /\ UNCHANGED evars

\* (mutant) the idle time is not measured from the last use
TimedOut_Broken == now >= QWEN_TIMEOUT_SECONDS
\* lines 129-131: elapsed >= QWEN_TIMEOUT_SECONDS
TimedOut == now - last_used_time >= QWEN_TIMEOUT_SECONDS

\* lines 129-134: on timeout self.unload("timeout") is called with self.lock
\* still held
WdElapsed(w) ==
  /\ pc[w] = "wd_elapsed"
  /\ IF TimedOut
     THEN /\ pc' = [pc EXCEPT ![w] = "ul_lock"]
          /\ outer' = [outer EXCEPT ![w] = "watchdog"]
          /\ lock' = lock
     ELSE /\ pc' = [pc EXCEPT ![w] = "wd_while"]
          /\ outer' = outer
          /\ lock' = NoThread
  /\ UNCHANGED <<is_loaded, last_used_time, monitoring, timeout_thread, op,
                 running, response, io, sleepLeft, now, loadsSinceUnload>>
  /\ NoReturn
  /\ UNCHANGED evars

(***************************************************************************)
(* The wall clock                                                          *)
(***************************************************************************)
Tick ==
  /\ now < MaxTime
  /\ now' = now + 1
  /\ sleepLeft' = [t \in Threads |-> IF sleepLeft[t] > 0 THEN sleepLeft[t] - 1 ELSE 0]
  /\ UNCHANGED <<is_loaded, last_used_time, monitoring, timeout_thread, lock,
                 pc, op, outer, running, response, io, loadsSinceUnload>>
  /\ NoReturn
  /\ UNCHANGED evars

(***************************************************************************)
(* The lifecycle manager as a whole                                        *)
(***************************************************************************)
\* one step of the code of thread t
ThreadStep(t) ==
  \/ Acquire(t)
  \/ ElCheck(t)
  \/ ElQuery(t)
  \/ ElRunning(t)
  \/ ElLoad(t)
  \/ ElResp(t)
  \/ MuBody(t)
  \/ UlCheck(t)
  \/ UlReq(t)
  \/ CsBody(t)
  \/ WdWhile(t)
  \/ WdWake(t)
  \/ WdCheck(t)
  \/ WdElapsed(t)

Call(t) ==
  \/ CallEnsureLoaded(t)
  \/ CallMarkUsed(t)
  \/ CallUnload(t)
  \/ CallCheckStatus(t)

QwenNext ==
  \/ \E t \in Callers : Call(t)
  \/ \E t \in Threads : ThreadStep(t)
  \/ Tick

(***************************************************************************)
(* FunctionExecutor (core/function_executor.py): values                    *)
(***************************************************************************)
\* a key that the params mapping does not hold
Absent == "<absent>"
\* a value that is not a string (the number 5): it has no lower()
NotAString == "<5>"
\* brightness is None
NoBrightness == -1
\* a backend call that names no device
NoDevice == 0

\* "data": None
None == [kind |-> "None"]

\* the result mapping of an action
Envelope(success, message, data) ==
  [success |-> success, message |-> message, data |-> data]

\* {"success": False, "message": ..., "data": None}
Failure(message) == Envelope(FALSE, message, None)

\* no result: the call has not returned anything
NoResult == Envelope(FALSE, <<>>, None)

\* a params mapping without keys
NoParams ==
  [isdict |-> TRUE, action |-> Absent, device_name |-> Absent,
   brightness |-> NoBrightness, color |-> Absent, duration |-> Absent,
   label |-> Absent, time |-> Absent, title |-> Absent, date |-> Absent,
   text |-> Absent, query |-> Absent]

\* params that is not a mapping (None): it has no get()
NotADict == [NoParams EXCEPT !.isdict = FALSE]

\* params.get(key, default)
Get(params, key, default) ==
  IF params[key] = Absent THEN default ELSE params[key]

\* Python truth value of a string-valued parameter
Truthy(v) == v \notin {Absent, ""}

\* one call of a collaborator: method, device, arguments
Invoke(fn, ip, args) == [fn |-> fn, ip |-> ip, args |-> args]

\* a call of a device method together with what it answered
Answered(fn, ip, args, answer) ==
  [fn |-> fn, ip |-> ip, args |-> args, answer |-> answer]

\* the characters of every string value of the model
Chars(s) ==
  CASE s = "" -> <<>>
    [] s = "light" -> <<"l", "i", "g", "h", "t">>
    [] s = "all" -> <<"a", "l", "l">>
    [] s = "All" -> <<"A", "l", "l">>
    [] s = "lights" -> <<"l", "i", "g", "h", "t", "s">>
    [] s = "everything" -> <<"e", "v", "e", "r", "y", "t", "h", "i", "n", "g">>
    [] s = "office" -> <<"o", "f", "f", "i", "c", "e">>
    [] s = "Kitchen Light" -> <<"K", "i", "t", "c", "h", "e", "n", " ", "L", "i", "g", "h", "t">>
    [] s = "Kitchen Lights" -> <<"K", "i", "t", "c", "h", "e", "n", " ", "L", "i", "g", "h", "t", "s">>
    [] s = "garage" -> <<"g", "a", "r", "a", "g", "e">>
    [] s = "Left Office Light" -> <<"L", "e", "f", "t", " ", "O", "f", "f", "i", "c", "e", " ", "L", "i", "g", "h", "t">>
    [] s = "Right Office Light" -> <<"R", "i", "g", "h", "t", " ", "O", "f", "f", "i", "c", "e", " ", "L", "i", "g", "h", "t">>
    [] s = "1 second" -> <<"1", " ", "s", "e", "c", "o", "n", "d">>
    [] s = "1 minute" -> <<"1", " ", "m", "i", "n", "u", "t", "e">>
    [] s = "10 minutes" ->
         <<"1", "0", " ", "m", "i", "n", "u", "t", "e", "s">>
    [] s = "1 hour 30 minutes" ->
         <<"1", " ", "h", "o", "u", "r", " ", "3", "0", " ", "m", "i", "n",
           "u", "t", "e", "s">>
    [] s = "45" -> <<"4", "5">>
    [] s = "soon" -> <<"s", "o", "o", "n">>
    [] s = "Blue" -> <<"B", "l", "u", "e">>
    [] s = "teal" -> <<"t", "e", "a", "l">>
    [] s = "7am" -> <<"7", "a", "m">>
    [] s = "7:30 PM" -> <<"7", ":", "3", "0", " ", "P", "M">>
    [] s = "noon" -> <<"n", "o", "o", "n">>
    [] s = "09:00" -> <<"0", "9", ":", "0", "0">>
    [] s = "tomorrow" -> <<"t", "o", "m", "o", "r", "r", "o", "w">>
    [] s = "today" -> <<"t", "o", "d", "a", "y">>

\* str.lower() on one character
Lower(c) ==
  CASE c = "A" -> "a"
    [] c = "B" -> "b"
    [] c = "C" -> "c"
    [] c = "D" -> "d"
    [] c = "E" -> "e"
    [] c = "F" -> "f"
    [] c = "G" -> "g"
    [] c = "H" -> "h"
    [] c = "I" -> "i"
    [] c = "J" -> "j"
    [] c = "K" -> "k"
    [] c = "L" -> "l"
    [] c = "M" -> "m"
    [] c = "N" -> "n"
    [] c = "O" -> "o"
    [] c = "P" -> "p"
    [] c = "Q" -> "q"
    [] c = "R" -> "r"
    [] c = "S" -> "s"
    [] c = "T" -> "t"
    [] c = "U" -> "u"
    [] c = "V" -> "v"
    [] c = "W" -> "w"
    [] c = "X" -> "x"
    [] c = "Y" -> "y"
    [] c = "Z" -> "z"
    [] OTHER -> c

\* lines 199-206: the palette, colour name -> (hue, saturation, value)
colors ==
  (<<"r", "e", "d">> :> <<0, 100, 100>>)
  @@ (<<"o", "r", "a", "n", "g", "e">> :> <<30, 100, 100>>)
  @@ (<<"y", "e", "l", "l", "o", "w">> :> <<60, 100, 100>>)
  @@ (<<"g", "r", "e", "e", "n">> :> <<120, 100, 100>>)
  @@ (<<"c", "y", "a", "n">> :> <<180, 100, 100>>)
  @@ (<<"b", "l", "u", "e">> :> <<240, 100, 100>>)
  @@ (<<"p", "u", "r", "p", "l", "e">> :> <<270, 100, 100>>)
  @@ (<<"p", "i", "n", "k">> :> <<300, 100, 100>>)
  @@ (<<"w", "h", "i", "t", "e">> :> <<0, 0, 100>>)
  @@ (<<"w", "a", "r", "m">> :> <<30, 80, 100>>)
  @@ (<<"w", "a", "r", "m", " ", "w", "h", "i", "t", "e">> :> <<30, 80, 100>>)
  @@ (<<"c", "o", "o", "l", " ", "w", "h", "i", "t", "e">> :> <<0, 0, 100>>)
  @@ (<<"s", "o", "f", "t", " ", "w", "h", "i", "t", "e">> :> <<30, 60, 100>>)
  @@ (<<"d", "a", "y", "l", "i", "g", "h", "t">> :> <<0, 0, 100>>)
  @@ (<<"c", "a", "n", "d", "l", "e", " ", "l", "i", "g", "h", "t">> :> <<30, 100, 50>>)
  @@ (<<"a", "m", "b", "e", "r">> :> <<30, 100, 100>>)
  @@ (<<"m", "a", "g", "e", "n", "t", "a">> :> <<300, 100, 100>>)

\* the string values whose characters are known
Phrases ==
  {"", "light", "all", "All", "lights", "Kitchen Lights", "everything", "office", "Kitchen Light",
   "garage", "Left Office Light", "Right Office Light", "1 second",
   "1 minute", "10 minutes", "1 hour 30 minutes", "45", "soon", "Blue", "teal", "7am", "7:30 PM", "noon", "09:00",
   "tomorrow", "today"}

\* the string made of the characters cs
Str(cs) == CHOOSE s \in Phrases : Chars(s) = cs

\* str.lower()
LowerStr(cs) == [i \in 1..Len(cs) |-> Lower(cs[i])]

IsSpace(c) == c = " "

RECURSIVE LStrip(_)
LStrip(cs) ==
  IF cs # <<>> /\ IsSpace(Head(cs)) THEN LStrip(Tail(cs)) ELSE cs

RECURSIVE RStrip(_)
RStrip(cs) ==
  IF cs # <<>> /\ IsSpace(cs[Len(cs)])
  THEN RStrip(SubSeq(cs, 1, Len(cs) - 1))
  ELSE cs

\* str.strip()
Strip(cs) == RStrip(LStrip(cs))

\* the value of a decimal digit
DigitValue ==
  ("0" :> 0) @@ ("1" :> 1) @@ ("2" :> 2) @@ ("3" :> 3) @@ ("4" :> 4) @@
  ("5" :> 5) @@ ("6" :> 6) @@ ("7" :> 7) @@ ("8" :> 8) @@ ("9" :> 9)

\* \d
IsDigit(c) == c \in DOMAIN DigitValue

\* the index after the run of digits that starts at i
RECURSIVE SkipDigits(_, _)
SkipDigits(cs, i) ==
  IF i <= Len(cs) /\ IsDigit(cs[i]) THEN SkipDigits(cs, i + 1) ELSE i

\* the index after the run of white space that starts at i
RECURSIVE SkipSpaces(_, _)
SkipSpaces(cs, i) ==
  IF i <= Len(cs) /\ IsSpace(cs[i]) THEN SkipSpaces(cs, i + 1) ELSE i

\* int(digits)
RECURSIVE ToInt(_)
ToInt(ds) ==
  IF ds = <<>> THEN 0
  ELSE 10 * ToInt(SubSeq(ds, 1, Len(ds) - 1)) + DigitValue[ds[Len(ds)]]

\* f"{n:02d}"
TwoDigits(n) == IF n < 10 THEN "0" \o ToString(n) ELSE ToString(n)

(***************************************************************************)
(* _parse_duration (lines 288-312)                                         *)
(***************************************************************************)
\* _parse_duration has not been called
NotParsed == -1

\* (\d+)\s*<unit>... matches at i: digits, optional white space, the unit's
\* first letter (what follows the first letter is optional in each pattern)
MatchesAt(cs, i, unit) ==
  /\ IsDigit(cs[i])
  /\ LET k == SkipSpaces(cs, SkipDigits(cs, i))
     IN  k <= Len(cs) /\ cs[k] = unit

\* the sum of group(1) over the matches of the pattern, as one match per run
\* of digits
RECURSIVE SumQuantities(_, _, _)
SumQuantities(cs, unit, i) ==
  IF i > Len(cs) THEN 0
  ELSE IF MatchesAt(cs, i, unit)
    THEN ToInt(SubSeq(cs, i, SkipDigits(cs, i) - 1))
           + SumQuantities(cs, unit, SkipDigits(cs, i))
  ELSE SumQuantities(cs, unit, i + 1)

\* (mutant) every match of the pattern is counted, as with re.finditer
SearchQuantity_Broken(cs, unit) == SumQuantities(cs, unit, 1)

\* re.search(pattern, duration_str): group(1) of the leftmost match as an
\* integer, 0 when the pattern does not match
SearchQuantity(cs, unit) ==
  LET hits == { i \in 1..Len(cs) : MatchesAt(cs, i, unit) }
  IN  IF hits = {} THEN 0
      ELSE LET i == CHOOSE h \in hits : \A g \in hits : h <= g
           IN  ToInt(SubSeq(cs, i, SkipDigits(cs, i) - 1))

\* re.findall(r'\d+', duration_str)[0] * 60, 0 when there is no number
FirstNumberAsMinutes(cs) ==
  LET starts == { i \in 1..Len(cs) : IsDigit(cs[i]) }
  IN  IF starts = {} THEN 0
      ELSE LET i == CHOOSE h \in starts : \A g \in starts : h <= g
           IN  ToInt(SubSeq(cs, i, SkipDigits(cs, i) - 1)) * 60

_parse_duration(duration_str) ==
  LET cs == Strip(LowerStr(duration_str))
      total_seconds == SearchQuantity(cs, "h") * 3600
                         + SearchQuantity(cs, "m") * 60
                         + SearchQuantity(cs, "s")
  IN  IF total_seconds = 0 THEN FirstNumberAsMinutes(cs) ELSE total_seconds

(***************************************************************************)
(* _normalize_time (lines 335-354)                                         *)
(***************************************************************************)
\* re.match(r'(\d{1,2}):?(\d{2})?\s*(am|pm)?', time_str): every part after
\* the hour is optional, so the greedy choice of each part is the match
_normalize_time(time_str) ==
  LET cs == Strip(LowerStr(time_str))
  IN  IF cs = <<>> \/ ~IsDigit(cs[1]) THEN Str(cs)
      ELSE
        LET p1 == IF Len(cs) >= 2 /\ IsDigit(cs[2]) THEN 3 ELSE 2
            p2 == IF p1 <= Len(cs) /\ cs[p1] = ":" THEN p1 + 1 ELSE p1
            has2 == p2 + 1 <= Len(cs) /\ IsDigit(cs[p2]) /\ IsDigit(cs[p2 + 1])
            p3 == IF has2 THEN p2 + 2 ELSE p2
            p4 == SkipSpaces(cs, p3)
            period == IF p4 + 1 <= Len(cs) /\ cs[p4] \in {"a", "p"}
                         /\ cs[p4 + 1] = "m"
                      THEN cs[p4] ELSE ""
            hour0 == ToInt(SubSeq(cs, 1, p1 - 1))
            minute == IF has2 THEN ToInt(SubSeq(cs, p2, p2 + 1)) ELSE 0
            hour == IF period = "p" /\ hour0 < 12 THEN hour0 + 12
                    ELSE IF period = "a" /\ hour0 = 12 THEN 0
                    ELSE hour0
        IN  TwoDigits(hour) \o ":" \o TwoDigits(minute)

(***************************************************************************)
(* FunctionExecutor: collaborators and handler outcomes                    *)
(***************************************************************************)
\* the smart devices of the network and their display names (alias)
Alias ==
  (1 :> "Left Office Light") @@ (2 :> "Right Office Light")
    @@ (3 :> "Kitchen Light")

\* what a discovery may leave in kasa_manager.devices (ids in dict order)
DiscoveredCaches == { <<>>, <<1, 2>>, <<3, 1>> }

\* await self.kasa_manager.discover_devices(): raises, or replaces the cache
DiscoverAnswers ==
  {[raised |-> TRUE, found |-> <<>>]}
    \cup { [raised |-> FALSE, found |-> c] : c \in DiscoveredCaches }

\* the discovery call with what it did: it raised, or it left an empty or a
\* filled cache
Discover(d) ==
  Answered("discover_devices", NoDevice, <<>>,
           IF d.raised THEN "raise"
           ELSE IF d.found = <<>> THEN "[]" ELSE "devices")

\* a device call answers True or False, or raises
BoolAnswers == {"True", "False", "raise"}

\* _get_light_module(ip): (dev, _) with dev.is_on, (None, _), or raises
LightModuleAnswers == {"on", "off", "None", "raise"}

\* the keys of the mapping returned by WeatherManager.get_weather
\* (weather.py lines 44-95), {} for None
WeatherAnswers ==
  { {}, {"temp", "code", "is_day", "forecast", "high", "low"} }

\* a handler returned ret after the backend calls cs
Returned(ret, cs) ==
  [raised |-> FALSE, exc |-> "", handled |-> "", ret |-> ret, calls |-> cs,
   devices |-> devices, active_timers |-> active_timers,
   event_loop |-> event_loop]

\* an exception left the handler after the backend calls cs
Raised(e, cs) ==
  [raised |-> TRUE, exc |-> e, handled |-> "", ret |-> NoResult,
   calls |-> cs, devices |-> devices, active_timers |-> active_timers,
   event_loop |-> event_loop]

(***************************************************************************)
(* ActiveTimer (lines 13-37)                                               *)
(***************************************************************************)
ActiveTimer(label, duration_seconds, start_time) ==
  [label |-> label, duration_seconds |-> duration_seconds,
   start_time |-> start_time]

\* no ActiveTimer
NoTimer == ActiveTimer("", 0, -1)

\* lines 20-23: max(0, int(duration_seconds - (time.time() - start_time)))
remaining_seconds(timer) ==
  LET left == timer.duration_seconds * TicksPerSecond
                - (clock - timer.start_time)
  IN  IF left <= 0 THEN 0 ELSE left \div TicksPerSecond

\* (mutant) a timer with 0 seconds left is not yet expired
is_expired_Broken(timer) == remaining_seconds(timer) < 0
\* lines 25-27
is_expired(timer) == remaining_seconds(timer) <= 0

\* lines 29-37: the numbers printed, "<h>h <m>m <s>s", "<m>m <s>s" or "<s>s"
format_remaining(timer) ==
  LET total == remaining_seconds(timer)
      secs == total % 60
      mins == (total \div 60) % 60
      hours == (total \div 60) \div 60
  IN  IF hours # 0 THEN <<hours, mins, secs>>
      ELSE IF mins # 0 THEN <<mins, secs>>
      ELSE <<secs>>

\* (mutant) the timer is added next to the timers of the same label
SetItem_Broken(timers, timer) == Append(timers, timer)

\* self.active_timers[label] = timer on a dict kept in insertion order
SetItem(timers, timer) ==
  IF \E i \in 1..Len(timers) : timers[i].label = timer.label
  THEN [i \in 1..Len(timers) |->
          IF timers[i].label = timer.label THEN timer ELSE timers[i]]
  ELSE Append(timers, timer)

(***************************************************************************)
(* _async_control_light (lines 130-260)                                    *)
(***************************************************************************)
\* lines 157: the phrases that select every cached device
Everything ==
  { Chars("all"), Chars("lights"), Chars("light"), Chars("everything") }

\* (mutant) the phrase is only searched in the alias
FuzzyMatch_Broken(ip, device_name_lower) ==
  Contains(LowerStr(Chars(Alias[ip])), device_name_lower)

\* lines 164-165: alias lowercased contains the phrase, or the reverse
FuzzyMatch(ip, device_name_lower) ==
  LET alias == LowerStr(Chars(Alias[ip]))
  IN  Contains(alias, device_name_lower) \/ Contains(device_name_lower, alias)

\* lines 163-167 and 180-184: the cached devices that match, in cache order
FuzzyTargets(cache, device_name_lower) ==
  SelectSeq(cache, LAMBDA ip : FuzzyMatch(ip, device_name_lower))

\* lines 157-167
FindTargets(cache, device_name_lower) ==
  IF device_name_lower \in Everything THEN cache
  ELSE FuzzyTargets(cache, device_name_lower)

\* one pass of the loop body returned: success and action_desc
Step(success, action_desc, cs) ==
  [raised |-> FALSE, exc |-> "", success |-> success,
   action_desc |-> action_desc, calls |-> cs]

\* one pass of the loop body raised e
StepRaised(e, cs) ==
  [raised |-> TRUE, exc |-> e, success |-> FALSE, action_desc |-> <<>>,
   calls |-> cs]

\* success = await self.kasa_manager.<fn>(ip, ...) after the calls before
Switch(fn, ip, args, action_desc, before) ==
  { IF a = "raise"
    THEN StepRaised("KasaError", Append(before, Answered(fn, ip, args, a)))
    ELSE Step(a = "True", action_desc,
              Append(before, Answered(fn, ip, args, a)))
    : a \in BoolAnswers }

\* (mutant) the palette is indexed, colors[color.lower()], which raises
\* KeyError on a name it does not hold
SetColor_Broken(color, ip) ==
  IF color = NotAString THEN {StepRaised("AttributeError", <<>>)}
  ELSE
    LET key == LowerStr(Chars(color))
        action_desc == <<"Set color to ", color, " for">>
    IN  IF key \in DOMAIN colors
        THEN LET set_hsv(a) == Answered("set_hsv", ip, colors[key], a)
                 turn_on(b) == Answered("turn_on", ip, <<>>, b)
             IN  UNION {
                   IF a = "raise"
                   THEN {StepRaised("KasaError", <<set_hsv(a)>>)}
                   ELSE IF a = "False"
                     THEN {Step(FALSE, action_desc, <<set_hsv(a)>>)}
                   ELSE { IF b = "raise"
                          THEN StepRaised("KasaError",
                                          <<set_hsv(a), turn_on(b)>>)
                          ELSE Step(TRUE, action_desc,
                                    <<set_hsv(a), turn_on(b)>>)
                          : b \in BoolAnswers }
                   : a \in BoolAnswers }
        ELSE {StepRaised("KeyError", <<>>)}
\* lines 207-217: the colour branch
SetColor(color, ip) ==
  IF color = NotAString THEN {StepRaised("AttributeError", <<>>)}
  ELSE
    LET key == LowerStr(Chars(color))
        action_desc == <<"Set color to ", color, " for">>
    IN  IF key \in DOMAIN colors
        THEN LET set_hsv(a) == Answered("set_hsv", ip, colors[key], a)
                 turn_on(b) == Answered("turn_on", ip, <<>>, b)
             IN  UNION {
                   IF a = "raise"
                   THEN {StepRaised("KasaError", <<set_hsv(a)>>)}
                   ELSE IF a = "False"
                     THEN {Step(FALSE, action_desc, <<set_hsv(a)>>)}
                   ELSE { IF b = "raise"
                          THEN StepRaised("KasaError",
                                          <<set_hsv(a), turn_on(b)>>)
                          ELSE Step(TRUE, action_desc,
                                    <<set_hsv(a), turn_on(b)>>)
                          : b \in BoolAnswers }
                   : a \in BoolAnswers }
        ELSE {Step(FALSE, <<"Unknown color '", color, "' for">>, <<>>)}

\* the is_on value that the cache entry of a device holds since the last
\* discovery (read by line 536 only)
CachedIsOn == (1 :> TRUE) @@ (2 :> FALSE) @@ (3 :> TRUE)

\* (mutant) the device is queried, and flipped from its cached state
Toggle_Broken(ip) ==
  LET get(live) == Answered("_get_light_module", ip, <<>>, live)
  IN  UNION {
        IF live = "raise" THEN {StepRaised("KasaError", <<get(live)>>)}
        ELSE IF live = "None"
          THEN {Step(FALSE, <<"Failed to toggle">>, <<get(live)>>)}
        ELSE IF CachedIsOn[ip]
          THEN Switch("turn_off", ip, <<>>, <<"Turned off">>, <<get(live)>>)
        ELSE Switch("turn_on", ip, <<>>, <<"Turned on">>, <<get(live)>>)
        : live \in LightModuleAnswers }
\* lines 231-246: the toggle branch
Toggle(ip) ==
  LET get(live) == Answered("_get_light_module", ip, <<>>, live)
  IN  UNION {
        IF live = "raise" THEN {StepRaised("KasaError", <<get(live)>>)}
        ELSE IF live = "None"
          THEN {Step(FALSE, <<"Failed to toggle">>, <<get(live)>>)}
        ELSE IF live = "on"
          THEN Switch("turn_off", ip, <<>>, <<"Turned off">>, <<get(live)>>)
        ELSE Switch("turn_on", ip, <<>>, <<"Turned on">>, <<get(live)>>)
        : live \in LightModuleAnswers }

\* (mutant) an action without a branch of its own is taken as a toggle
ControlDevice_Broken(action, color, brightness, ip) ==
  IF action = "on" /\ Truthy(color) THEN SetColor(color, ip)
  ELSE IF action = "on"
    THEN Switch("turn_on", ip, <<>>, <<"Turned on">>, <<>>)
  ELSE IF action = "off"
    THEN Switch("turn_off", ip, <<>>, <<"Turned off">>, <<>>)
  ELSE IF action = "dim" /\ brightness # NoBrightness
    THEN Switch("set_brightness", ip, <<brightness>>,
                <<"Set brightness to ", ToString(brightness), "% for">>, <<>>)
  ELSE Toggle(ip)
\* lines 193-248: the loop body for one target
ControlDevice(action, color, brightness, ip) ==
  IF action = "on" /\ Truthy(color) THEN SetColor(color, ip)
  ELSE IF action = "on"
    THEN Switch("turn_on", ip, <<>>, <<"Turned on">>, <<>>)
  ELSE IF action = "off"
    THEN Switch("turn_off", ip, <<>>, <<"Turned off">>, <<>>)
  ELSE IF action = "dim" /\ brightness # NoBrightness
    THEN Switch("set_brightness", ip, <<brightness>>,
                <<"Set brightness to ", ToString(brightness), "% for">>, <<>>)
  ELSE IF action = "toggle" THEN Toggle(ip)
  ELSE {Step(FALSE, <<"Unknown action ", action, " for">>, <<>>)}

\* lines 192-251: the loop over target_ips from index i on; results holds
\* the entries appended so far, cs the backend calls made so far
RECURSIVE ControlTargets(_, _, _, _, _)
ControlTargets(params, target_ips, i, results, cs) ==
  IF i > Len(target_ips)
  THEN {[raised |-> FALSE, exc |-> "", results |-> results, calls |-> cs]}
  ELSE
    UNION {
      IF step.raised
      THEN {[raised |-> TRUE, exc |-> step.exc, results |-> results,
             calls |-> cs \o step.calls]}
      ELSE ControlTargets(params, target_ips, i + 1,
             IF step.success
             THEN Append(results,
                         step.action_desc \o <<" ", Alias[target_ips[i]]>>)
             ELSE results,
             cs \o step.calls)
      : step \in ControlDevice(Get(params, "action", "toggle"), params.color,
                               params.brightness, target_ips[i]) }

\* ", ".join(results)
RECURSIVE Join(_)
Join(results) ==
  IF results = <<>> THEN <<>>
  ELSE IF Len(results) = 1 THEN results[1]
  ELSE results[1] \o <<", ">> \o Join(Tail(results))

\* target_names (lines 160, 167, 184)
TargetNames(target_ips) == [i \in 1..Len(target_ips) |-> Alias[target_ips[i]]]

\* lines 189-260: control the targets and build the result
ExecuteActions(params, target_ips, cache, cs) ==
  { IF batch.raised
    THEN [Raised(batch.exc, batch.calls) EXCEPT !.devices = cache]
    ELSE IF batch.results = <<>>
      THEN [Returned(Failure(<<"Failed to control any devices">>), batch.calls)
              EXCEPT !.devices = cache]
    ELSE [Returned(
            Envelope(TRUE, Join(batch.results),
                     [kind |-> "light",
                      device |-> Get(params, "device_name", "light"),
                      action |-> Get(params, "action", "toggle"),
                      targets |-> TargetNames(target_ips)]),
            batch.calls)
            EXCEPT !.devices = cache]
    : batch \in ControlTargets(params, target_ips, 1, <<>>, cs) }

\* (mutant) no match is reported at once, without a rediscovery
Rediscover_Broken(params, cache, cs) ==
  {[Returned(Failure(<<"Device '", Get(params, "device_name", "light"),
                       "' not found">>), cs)
      EXCEPT !.devices = cache]}

\* lines 171-187: no match, so one more discovery and one more fuzzy match
Rediscover(params, cache, cs) ==
  LET device_name == Get(params, "device_name", "light")
  IN  UNION {
        IF d.raised
        THEN {[Raised("KasaError", Append(cs, Discover(d)))
                 EXCEPT !.devices = cache]}
        ELSE
          LET target_ips ==
                FuzzyTargets(d.found, LowerStr(Chars(device_name)))
          IN  IF target_ips = <<>>
              THEN {[Returned(
                       Failure(<<"Device '", device_name, "' not found">>),
                       Append(cs, Discover(d)))
                       EXCEPT !.devices = d.found]}
              ELSE ExecuteActions(params, target_ips, d.found,
                                  Append(cs, Discover(d)))
        : d \in DiscoverAnswers }

\* (mutant) the test of lines 147-148 is missing: an empty cache goes on to
\* the matching
WithCache_Broken(params, cache, cs) ==
  LET device_name == Get(params, "device_name", "light")
  IN  IF device_name = NotAString
      THEN {[Raised("AttributeError", cs) EXCEPT !.devices = cache]}
      ELSE
        LET target_ips == FindTargets(cache, LowerStr(Chars(device_name)))
        IN  IF target_ips = <<>>
            THEN Rediscover(params, cache, cs)
            ELSE ExecuteActions(params, target_ips, cache, cs)
\* lines 146-187: the cache after the first discovery is known
WithCache(params, cache, cs) ==
  LET device_name == Get(params, "device_name", "light")
  IN  IF cache = <<>>
      THEN {[Returned(Failure(<<"No smart devices found">>), cs)
               EXCEPT !.devices = cache]}
      ELSE IF device_name = NotAString
        THEN {[Raised("AttributeError", cs) EXCEPT !.devices = cache]}
      ELSE
        LET target_ips == FindTargets(cache, LowerStr(Chars(device_name)))
        IN  IF target_ips = <<>>
            THEN Rediscover(params, cache, cs)
            ELSE ExecuteActions(params, target_ips, cache, cs)

\* (mutant) every call starts with a discovery, whatever the cache holds
_async_control_light_Broken(params) ==
  IF ~params.isdict THEN {Raised("AttributeError", <<>>)}
  ELSE IF ~kasa_manager
    THEN {Returned(Failure(<<"Kasa manager not available">>), <<>>)}
  ELSE UNION {
         IF d.raised THEN {Raised("KasaError", <<Discover(d)>>)}
         ELSE WithCache(params, d.found, <<Discover(d)>>)
         : d \in DiscoverAnswers }
\* lines 130-260
_async_control_light(params) ==
  IF ~params.isdict THEN {Raised("AttributeError", <<>>)}
  ELSE IF ~kasa_manager
    THEN {Returned(Failure(<<"Kasa manager not available">>), <<>>)}
  ELSE IF devices = <<>>
    THEN UNION {
           IF d.raised THEN {Raised("KasaError", <<Discover(d)>>)}
           ELSE WithCache(params, d.found, <<Discover(d)>>)
           : d \in DiscoverAnswers }
  ELSE WithCache(params, devices, <<>>)

\* (mutant) the coroutine runs on one event loop kept across the calls, which
\* the first call closes
asyncio_run_Broken(coro) ==
  IF event_loop = "closed" THEN {Raised("RuntimeError", <<>>)}
  ELSE { [o EXCEPT !.event_loop = "closed"] : o \in coro }

\* line 125, asyncio.run(coro): a new event loop runs the coroutine to its
\* end, whether it returns or raises, and is closed before the call returns
asyncio_run(coro) == { [o EXCEPT !.event_loop = "closed"] : o \in coro }

\* lines 122-128: asyncio.run(...) inside try / except Exception
_control_light(params) ==
  { IF o.raised
    THEN [o EXCEPT !.raised = FALSE, !.handled = "_control_light",
                   !.ret = Failure(<<"Light control failed: ", o.exc>>)]
    ELSE o
    : o \in asyncio_run(_async_control_light(params)) }

(***************************************************************************)
(* _set_timer (lines 263-286)                                              *)
(***************************************************************************)
\* (mutant) only a duration below 0 is refused
_set_timer_Broken(params) ==
  IF ~params.isdict THEN {Raised("AttributeError", <<>>)}
  ELSE
    LET duration_str == Get(params, "duration", "")
        label == Get(params, "label", "Timer")
    IN  IF duration_str = NotAString THEN {Raised("AttributeError", <<>>)}
        ELSE
          LET seconds == _parse_duration(Chars(duration_str))
          IN  IF seconds < 0
              THEN {Returned(
                      Failure(<<"Invalid duration: ", duration_str>>), <<>>)}
              ELSE {[Returned(
                       Envelope(TRUE,
                         <<"Timer '", label, "' set for ", duration_str>>,
                         [kind |-> "timer", label |-> label,
                          duration |-> duration_str, seconds |-> seconds]),
                       <<>>)
                     EXCEPT !.active_timers =
                       SetItem(active_timers,
                               ActiveTimer(label, seconds, clock))]}

\* lines 263-286
_set_timer(params) ==
  IF ~params.isdict THEN {Raised("AttributeError", <<>>)}
  ELSE
    LET duration_str == Get(params, "duration", "")
        label == Get(params, "label", "Timer")
    IN  IF duration_str = NotAString THEN {Raised("AttributeError", <<>>)}
        ELSE
          LET seconds == _parse_duration(Chars(duration_str))
          IN  IF seconds <= 0
              THEN {Returned(
                      Failure(<<"Invalid duration: ", duration_str>>), <<>>)}
              ELSE {[Returned(
                       Envelope(TRUE,
                         <<"Timer '", label, "' set for ", duration_str>>,
                         [kind |-> "timer", label |-> label,
                          duration |-> duration_str, seconds |-> seconds]),
                       <<>>)
                     EXCEPT !.active_timers =
                       SetItem(active_timers,
                               ActiveTimer(label, seconds, clock))]}

(***************************************************************************)
(* _set_alarm (lines 314-333)                                              *)
(***************************************************************************)
\* (mutant) the check of lines 319-320 is missing: add_alarm is called on the
\* manager reference, which raises when the reference is None
_set_alarm_Broken(params) ==
  IF ~params.isdict THEN {Raised("AttributeError", <<>>)}
  ELSE
    LET time_str == Get(params, "time", "")
        label == Get(params, "label", "Alarm")
    IN  IF time_str = NotAString THEN {Raised("AttributeError", <<>>)}
        ELSE IF ~task_manager THEN {Raised("AttributeError", <<>>)}
        ELSE
          LET normalized_time == _normalize_time(Chars(time_str))
              add_alarm == Invoke("add_alarm", NoDevice,
                                  <<normalized_time, label>>)
          IN  { IF alarm_id = "None"
                THEN Returned(Failure(<<"Failed to set alarm">>), <<add_alarm>>)
                ELSE Returned(
                       Envelope(TRUE,
                         <<"Alarm set for ", normalized_time>>
                           \o (IF label # "Alarm"
                               THEN <<" (", label, ")">> ELSE <<>>),
                         [kind |-> "alarm", id |-> alarm_id,
                          time |-> normalized_time, label |-> label]),
                       <<add_alarm>>)
                : alarm_id \in {"uuid", "None"} }
\* TaskManager.add_alarm (tasks.py lines 88-111): an id, or None on error
_set_alarm(params) ==
  IF ~params.isdict THEN {Raised("AttributeError", <<>>)}
  ELSE
    LET time_str == Get(params, "time", "")
        label == Get(params, "label", "Alarm")
    IN  IF ~task_manager
        THEN {Returned(Failure(<<"Task manager not available">>), <<>>)}
        ELSE IF time_str = NotAString THEN {Raised("AttributeError", <<>>)}
        ELSE
          LET normalized_time == _normalize_time(Chars(time_str))
              add_alarm == Invoke("add_alarm", NoDevice,
                                  <<normalized_time, label>>)
          IN  { IF alarm_id = "None"
                THEN Returned(Failure(<<"Failed to set alarm">>), <<add_alarm>>)
                ELSE Returned(
                       Envelope(TRUE,
                         <<"Alarm set for ", normalized_time>>
                           \o (IF label # "Alarm"
                               THEN <<" (", label, ")">> ELSE <<>>),
                         [kind |-> "alarm", id |-> alarm_id,
                          time |-> normalized_time, label |-> label]),
                       <<add_alarm>>)
                : alarm_id \in {"uuid", "None"} }

(***************************************************************************)
(* _create_calendar_event (lines 356-391)                                  *)
(***************************************************************************)
\* _parse_date (lines 393-424) lowercases and strips its argument and then
\* computes a calendar date; the start and end times computed from it
\* (lines 366-381) reach only add_event and are left out of the call record.
\* CalendarManager.add_event (calendar_manager.py lines 57-82): the event, or
\* None on error
_create_calendar_event(params) ==
  IF ~params.isdict THEN {Raised("AttributeError", <<>>)}
  ELSE
    LET title == Get(params, "title", "Event")
        date == Get(params, "date", "today")
        time_str == Get(params, "time", "09:00")
    IN  IF ~calendar_manager
        THEN {Returned(Failure(<<"Calendar manager not available">>), <<>>)}
        ELSE IF date = NotAString THEN {Raised("AttributeError", <<>>)}
        ELSE IF time_str = NotAString THEN {Raised("AttributeError", <<>>)}
        ELSE
          LET add_event == Invoke("add_event", NoDevice, <<title>>)
          IN  { IF event = "None"
                THEN Returned(Failure(<<"Failed to create event">>),
                              <<add_event>>)
                ELSE Returned(
                       Envelope(TRUE,
                         <<"Created event '", title, "' on ", date>>
                           \o (IF time_str # ""
                               THEN <<" at ", time_str>> ELSE <<>>),
                         [kind |-> "event", title |-> title]),
                       <<add_event>>)
                : event \in {"event", "None"} }

(***************************************************************************)
(* _add_task (lines 426-444)                                               *)
(***************************************************************************)
\* (mutant) the task is stored before the text is looked at
_add_task_Broken(params) ==
  IF ~params.isdict THEN {Raised("AttributeError", <<>>)}
  ELSE
    LET text == Get(params, "text", "")
        add_task == Invoke("add_task", NoDevice, <<text>>)
    IN  IF ~task_manager
        THEN {Returned(Failure(<<"Task manager not available">>), <<>>)}
        ELSE IF text = ""
          THEN {Returned(Failure(<<"No task text provided">>), <<add_task>>)}
        ELSE { IF task = "None"
               THEN Returned(Failure(<<"Failed to add task">>), <<add_task>>)
               ELSE Returned(
                      Envelope(TRUE, <<"Added task: ", text>>,
                               [kind |-> "task", text |-> text]),
                      <<add_task>>)
               : task \in {"task", "None"} }
\* TaskManager.add_task (tasks.py lines 42-63): the task, or None on error
_add_task(params) ==
  IF ~params.isdict THEN {Raised("AttributeError", <<>>)}
  ELSE
    LET text == Get(params, "text", "")
    IN  IF text = ""
        THEN {Returned(Failure(<<"No task text provided">>), <<>>)}
        ELSE IF ~task_manager
          THEN {Returned(Failure(<<"Task manager not available">>), <<>>)}
        ELSE
          LET add_task == Invoke("add_task", NoDevice, <<text>>)
          IN  { IF task = "None"
                THEN Returned(Failure(<<"Failed to add task">>), <<add_task>>)
                ELSE Returned(
                       Envelope(TRUE, <<"Added task: ", text>>,
                                [kind |-> "task", text |-> text]),
                       <<add_task>>)
                : task \in {"task", "None"} }

(***************************************************************************)
(* _web_search (lines 446-478)                                             *)
(***************************************************************************)
\* the search (import, DDGS().text) finds results, finds none, or raises;
\* it runs inside try / except Exception
_web_search(params) ==
  IF ~params.isdict THEN {Raised("AttributeError", <<>>)}
  ELSE
    LET query == Get(params, "query", "")
        text == Invoke("text", NoDevice, <<query>>)
    IN  IF query = ""
        THEN {Returned(Failure(<<"No search query provided">>), <<>>)}
        ELSE
          { IF results = "raise"
            THEN [Returned(Failure(<<"Search failed: ", "SearchError">>),
                           <<text>>)
                    EXCEPT !.exc = "SearchError", !.handled = "_web_search"]
            ELSE IF results = "results"
              THEN Returned(
                     Envelope(TRUE, <<"Found results for '", query, "'">>,
                              [kind |-> "search", query |-> query]),
                     <<text>>)
            ELSE Returned(
                   Envelope(TRUE, <<"No results found for '", query, "'">>,
                            None),
                   <<text>>)
            : results \in {"results", "empty", "raise"} }

(***************************************************************************)
(* _get_system_info (lines 482-577)                                        *)
(***************************************************************************)
\* lines 495-504: the entries of info["timers"], in dict order
TimerEntries(timers) ==
  [i \in 1..Len(timers) |->
     [label |-> timers[i].label, remaining |-> format_remaining(timers[i])]]

\* lines 532-538: the entries of info["smart_devices"], in cache order
DeviceEntries == [i \in 1..Len(devices) |-> Alias[devices[i]]]

\* the answers of a collaborator that is set; "skipped" when it is None
AnswersOf(manager, answers) == IF manager THEN answers ELSE {"skipped"}

\* a collaborator call and its answer, when the collaborator is set
CallOf(manager, fn, answer) ==
  IF manager THEN <<Answered(fn, NoDevice, <<>>, answer)>> ELSE <<>>

\* the keys of the mapping that get_weather returns when it does not fail
WeatherKeys == CHOOSE keys \in WeatherAnswers : keys # {}

\* lines 540-553: get_weather answered with a mapping of these keys
WeatherInfo(keys) == IF "current" \in keys THEN "weather" ELSE "None"

\* what the collaborators answer to one get_system_info: each query has its
\* own try block (lines 508-512, 516-521, 525-529, 542-553, 557-571), so
\* every collaborator that is set is queried whatever the others did.
\* get_alarms, get_tasks and get_events return rows or [], get_weather its
\* mapping or None, get_briefing items; each may raise inside its try block
InfoAnswers ==
  { [alarms |-> a, events |-> e, tasks |-> t, weather |-> w, news |-> n]
    : a \in AnswersOf(task_manager, {"rows", "[]", "raise"}),
      e \in AnswersOf(calendar_manager, {"rows", "[]", "raise"}),
      t \in AnswersOf(task_manager, {"rows", "[]", "raise"}),
      w \in AnswersOf(weather_manager, {"mapping", "None", "raise"}),
      n \in AnswersOf(news_manager, {"items", "raise"}) }

\* the collaborator calls of one get_system_info, the skipped ones left out
InfoCalls(x) ==
  CallOf(x.alarms # "skipped", "get_alarms", x.alarms)
    \o CallOf(x.events # "skipped", "get_events", x.events)
    \o CallOf(x.tasks # "skipped", "get_tasks", x.tasks)
    \o CallOf(x.weather # "skipped", "get_weather", x.weather)
    \o CallOf(x.news # "skipped", "get_briefing", x.news)

_get_system_info ==
  LET live == SelectSeq(active_timers, LAMBDA timer : ~is_expired(timer))
  IN  { [Returned(
           Envelope(TRUE, <<"System info retrieved">>,
             [kind |-> "info",
              timers |-> TimerEntries(live),
              alarms |-> IF x.alarms = "rows" THEN "rows" ELSE "[]",
              calendar_today |-> IF x.events = "rows" THEN "rows" ELSE "[]",
              tasks |-> IF x.tasks = "rows" THEN "rows" ELSE "[]",
              smart_devices |->
                IF kasa_manager THEN DeviceEntries ELSE <<>>,
              weather |-> IF x.weather = "mapping"
                          THEN WeatherInfo(WeatherKeys) ELSE "None",
              news |-> IF x.news = "items" THEN "items" ELSE "[]"]),
           InfoCalls(x))
         EXCEPT !.active_timers = live]
        : x \in InfoAnswers }

(***************************************************************************)
(* execute (lines 89-118)                                                  *)
(***************************************************************************)
\* (mutant) the dispatch is a table lookup that raises KeyError on a name it
\* does not hold
Dispatch_Broken(func_name, params) ==
  CASE func_name = "control_light" -> _control_light(params)
    [] func_name = "set_timer" -> _set_timer(params)
    [] func_name = "set_alarm" -> _set_alarm(params)
    [] func_name = "create_calendar_event" -> _create_calendar_event(params)
    [] func_name = "add_task" -> _add_task(params)
    [] func_name = "web_search" -> _web_search(params)
    [] func_name = "get_system_info" -> _get_system_info
    [] OTHER -> {Raised("KeyError", <<>>)}
\* lines 101-116: the dispatch on func_name
Dispatch(func_name, params) ==
  CASE func_name = "control_light" -> _control_light(params)
    [] func_name = "set_timer" -> _set_timer(params)
    [] func_name = "set_alarm" -> _set_alarm(params)
    [] func_name = "create_calendar_event" -> _create_calendar_event(params)
    [] func_name = "add_task" -> _add_task(params)
    [] func_name = "web_search" -> _web_search(params)
    [] func_name = "get_system_info" -> _get_system_info
    [] OTHER ->
         {Returned(Failure(<<"Unknown function: ", func_name>>), <<>>)}

\* (mutant) the except clause of line 117 is missing
Catches_Broken(outcome) == FALSE
\* line 117: except Exception catches what the handler raised
Catches(outcome) == outcome.raised

\* the action names of lines 101-113
FuncNames ==
  {"control_light", "set_timer", "set_alarm", "create_calendar_event",
   "add_task", "web_search", "get_system_info"}

\* a name that is none of them
UnknownName == "fly_drone"

\* device phrases of the requests
DeviceNames == {Absent, "office", "Kitchen Light", "garage", NotAString}

\* the params mappings passed with each action name
Requests(func_name) ==
  {NotADict} \cup
  CASE func_name = "control_light" ->
         { [NoParams EXCEPT !.device_name = d, !.action = a]
           : d \in DeviceNames,
             a \in {Absent, "on", "off", "toggle", "dim", "color"} }
         \cup
         { [NoParams EXCEPT !.device_name = d, !.action = "on", !.color = c]
           : d \in DeviceNames, c \in {"Blue", "teal", NotAString} }
         \cup
         { [NoParams EXCEPT !.device_name = d, !.action = "dim",
                            !.brightness = 50]
           : d \in DeviceNames }
    [] func_name = "set_timer" ->
         { [NoParams EXCEPT !.duration = d, !.label = l]
           : d \in {Absent, "1 second", "1 minute", "soon", NotAString},
             l \in {Absent} }
    [] func_name = "set_alarm" ->
         { [NoParams EXCEPT !.time = t, !.label = l]
           : t \in {Absent, "7am", "7:30 PM", "noon", NotAString},
             l \in {Absent, "tea"} }
    [] func_name = "create_calendar_event" ->
         { [NoParams EXCEPT !.date = d, !.time = t]
           : d \in {Absent, "tomorrow", NotAString},
             t \in {Absent, "", NotAString} }
    [] func_name = "add_task" ->
         { [NoParams EXCEPT !.text = t]
           : t \in {Absent, "", "buy milk", NotAString} }
    [] func_name = "web_search" ->
         { [NoParams EXCEPT !.query = q] : q \in {Absent, "tla"} }
    [] OTHER -> {NoParams}

\* no thread is in control_light
NotInLight == [at |-> "idle", since |-> 0]

\* no call of execute yet
NoRequest == [func_name |-> "", params |-> NoParams]

\* no exception in the last call
NoException == [exc |-> "", handled_by |-> ""]

(***************************************************************************)
(* SettingsStore (core/settings_store.py)                                  *)
(***************************************************************************)
\* a value of a dict is a scalar, or a reference to a dict object: two dicts
\* that hold the same reference share the nested dict
Scalar(v) == [kind |-> "scalar", v |-> v]
DictRef(o) == [kind |-> "dict", v |-> o]
IsDict(x) == x.kind = "dict"

\* {}
EmptyDict == [k \in {} |-> Scalar("")]

\* d[k] = x
Assign(d, k, x) == (k :> x) @@ d

\* the dict objects: the nested dicts of the DEFAULT_SETTINGS literal, and
\* the nested dicts that belong to the store alone, made by _deep_merge
\* (line 92), by json.load (line 69) or by line 113
DefaultObjects == {"DEFAULT_SETTINGS.tts"}
OwnObject(k) ==
  CASE k = "tts" -> "self._settings.tts"
    [] k = "extra" -> "self._settings.extra"
OwnObjects == { OwnObject(k) : k \in {"tts", "extra"} }
Objects == DefaultObjects \cup OwnObjects

\* DEFAULT_SETTINGS (lines 16-44): the module-level dict, of which the theme
\* and the section tts (voice, speed) are kept
DEFAULT_SETTINGS ==
  ("theme" :> Scalar("Dark")) @@ ("tts" :> DictRef("DEFAULT_SETTINGS.tts"))

\* the nested dicts as the literal of lines 16-44 builds them
LiteralObjects ==
  [o \in Objects |->
     CASE o = "DEFAULT_SETTINGS.tts" ->
            ("voice" :> Scalar("ar-DZ-AminaNeural"))
              @@ ("speed" :> Scalar("1.1"))
       [] OTHER -> EmptyDict]

\* key_path.split('.') on the key paths in use
split(key_path) ==
  CASE key_path = "theme" -> <<"theme">>
    [] key_path = "tts" -> <<"tts">>
    [] key_path = "tts.speed" -> <<"tts", "speed">>
    [] key_path = "tts.voice" -> <<"tts", "voice">>
    [] key_path = "extra.k" -> <<"extra", "k">>
    [] key_path = "theme.x" -> <<"theme", "x">>

\* what the settings file holds: nothing (no file), text that is not JSON,
\* or the dict that json.dump wrote (line 84), nested dicts included
NoFile == [exists |-> FALSE, json |-> FALSE, top |-> EmptyDict,
           nested |-> [o \in Objects |-> EmptyDict]]
NotJson == [exists |-> TRUE, json |-> FALSE, top |-> EmptyDict,
            nested |-> [o \in Objects |-> EmptyDict]]
Dumped(top, objs) ==
  [exists |-> TRUE, json |-> TRUE, top |-> top, nested |-> objs]

\* lines 88-95, for the dicts of depth two that DEFAULT_SETTINGS and the
\* file hold: the result is a new dict; a key of override whose value and
\* whose base value are both dicts gets a new dict, the base's entries
\* overridden; any other key of override gets override's value; a key that
\* override does not hold keeps the value of base, a nested dict of base
\* included
_deep_merge(base, override, objs) ==
  LET nestedKeys == { k \in DOMAIN override.top : IsDict(override.top[k]) }
      merged(k) ==
        IF k \in DOMAIN base /\ IsDict(base[k])
        THEN [k2 \in DOMAIN objs[base[k].v]
                      \cup DOMAIN override.nested[override.top[k].v] |->
                IF k2 \in DOMAIN override.nested[override.top[k].v]
                THEN override.nested[override.top[k].v][k2]
                ELSE objs[base[k].v][k2]]
        ELSE override.nested[override.top[k].v]
  IN  [top |->
         [k \in DOMAIN base \cup DOMAIN override.top |->
            IF k \in nestedKeys THEN DictRef(OwnObject(k))
            ELSE IF k \in DOMAIN override.top THEN override.top[k]
            ELSE base[k]],
       objects |->
         [o \in Objects |->
            IF \E k \in nestedKeys : o = OwnObject(k)
            THEN merged(CHOOSE k \in nestedKeys : o = OwnObject(k))
            ELSE objs[o]]]

\* lines 78-86: json.dump writes the settings; or mkdir or open raises
\* IOError, which is printed, and the file is as it was; or the write raises
\* it, and the file that open(.., 'w') emptied holds a part of the text
_save(file, top, objs) == {Dumped(top, objs), file, NotJson}

\* lines 63-76: the settings after construction, the file as it is found
_load(file) ==
  IF file.exists /\ file.json
  THEN LET m == _deep_merge(DEFAULT_SETTINGS, file, LiteralObjects)
       IN  {[top |-> m.top, objects |-> m.objects, file |-> file]}
  ELSE IF file.exists
    THEN {[top |-> DEFAULT_SETTINGS, objects |-> LiteralObjects,
           file |-> file]}
  ELSE {[top |-> DEFAULT_SETTINGS, objects |-> LiteralObjects, file |-> f]
        : f \in _save(file, DEFAULT_SETTINGS, LiteralObjects)}

\* the files a start may find: none, one that is not JSON, the file of a
\* first start, one that holds only a theme, one of an older version with
\* a tts section that has no voice
FilesAtStart ==
  { NoFile, NotJson,
    Dumped(DEFAULT_SETTINGS, LiteralObjects),
    Dumped("theme" :> Scalar("Light"), LiteralObjects),
    Dumped(("theme" :> Scalar("Dark"))
             @@ ("tts" :> DictRef("DEFAULT_SETTINGS.tts")),
           [LiteralObjects EXCEPT !["DEFAULT_SETTINGS.tts"] =
              "speed" :> Scalar("2.0")]) }

\* no call of the store yet, no signal emitted yet
NoSettingsCall == [op |-> "none", key_path |-> "", raised |-> FALSE]
NoSignal == <<>>

\* __init__ (lines 54-61)
SettingsInit ==
  /\ \E file \in FilesAtStart : \E s \in _load(file) :
       /\ settings = s.top
       /\ objects = s.objects
       /\ settings_file = s.file
  /\ settings_call = NoSettingsCall
  /\ returned = None
  /\ setting_changed = NoSignal

\* the store as a first start leaves it, and not used
SettingsIdle ==
  /\ settings = DEFAULT_SETTINGS
  /\ objects = LiteralObjects
  /\ settings_file = Dumped(DEFAULT_SETTINGS, LiteralObjects)
  /\ settings_call = NoSettingsCall
  /\ returned = None
  /\ setting_changed = NoSignal

\* what a dict holds for a key: a scalar, or the nested dict itself
Held(x, objs) ==
  IF IsDict(x) THEN [kind |-> "dict", v |-> objs[x.v]] ELSE x

\* lines 99-106 on a dict top with nested dicts objs: subscripting a scalar
\* raises TypeError and a missing key KeyError, and both give the default
Lookup(top, objs, keys, default) ==
  IF keys[1] \notin DOMAIN top THEN default
  ELSE IF Len(keys) = 1 THEN Held(top[keys[1]], objs)
  ELSE IF ~IsDict(top[keys[1]]) THEN default
  ELSE LET d == objs[top[keys[1]].v]
       IN  IF keys[2] \in DOMAIN d THEN Held(d[keys[2]], objs) ELSE default

\* lines 97-106
get(key_path, default) == Lookup(settings, objects, split(key_path), default)

\* the other variables of the module
SettingsFrame ==
  /\ UNCHANGED <<task_manager, calendar_manager, kasa_manager,
                 weather_manager, news_manager, devices, active_timers,
                 event_loop, pending_timer, duration_text, parsed, clock,
                 request, result, exception, calls>>
  /\ UNCHANGED tvars
  /\ UNCHANGED qvars

\* a call of get
GetCall(key_path) ==
  /\ returned' = get(key_path, None)
  /\ settings_call' = [op |-> "get", key_path |-> key_path, raised |-> FALSE]
  /\ UNCHANGED <<settings, objects, settings_file, setting_changed>>
  /\ SettingsFrame

\* lines 108-118, for key paths of one or two keys: the walk of lines
\* 112-114 makes a missing section and then follows the reference that the
\* settings hold, whoever else holds it; line 115 on a scalar raises
\* TypeError, which leaves the method before the save and the signal
set(key_path, value) ==
  LET keys == split(key_path)
      k == keys[1]
      made == k \notin DOMAIN settings
      top == IF Len(keys) = 2 /\ made
             THEN Assign(settings, k, DictRef(OwnObject(k)))
             ELSE settings
      objs == IF Len(keys) = 2 /\ made
              THEN [objects EXCEPT ![OwnObject(k)] = EmptyDict]
              ELSE objects
  IN  /\ IF Len(keys) = 1
         THEN /\ settings' = Assign(settings, k, Scalar(value))
              /\ objects' = objects
              /\ settings_call' = [op |-> "set", key_path |-> key_path,
                                   raised |-> FALSE]
         ELSE IF IsDict(top[k])
         THEN /\ settings' = top
              /\ objects' = [objs EXCEPT ![top[k].v] =
                               Assign(objs[top[k].v], keys[2], Scalar(value))]
              /\ settings_call' = [op |-> "set", key_path |-> key_path,
                                   raised |-> FALSE]
         ELSE /\ UNCHANGED <<settings, objects>>
              /\ settings_call' = [op |-> "set", key_path |-> key_path,
                                   raised |-> TRUE]
      /\ IF settings_call'.raised
         THEN UNCHANGED <<settings_file, setting_changed>>
         ELSE /\ settings_file' \in _save(settings_file, settings', objects')
              /\ setting_changed' = <<key_path, Scalar(value)>>
      /\ returned' = None
      /\ SettingsFrame

\* line 122: DEFAULT_SETTINGS.copy() is a new dict with the keys and the
\* values of DEFAULT_SETTINGS: its nested dicts are those of DEFAULT_SETTINGS
DictCopy(d) == [k \in DOMAIN d |-> d[k]]

\* lines 120-124
reset_to_defaults ==
  /\ settings' = DictCopy(DEFAULT_SETTINGS)
  /\ objects' = objects
  /\ settings_file' \in _save(settings_file, settings', objects')
  /\ setting_changed' = <<"*", None>>
  /\ settings_call' = [op |-> "reset_to_defaults", key_path |-> "",
                       raised |-> FALSE]
  /\ returned' = None
  /\ SettingsFrame

\* __init__ (lines 43-55) and _init_managers (lines 57-87): every manager is
\* set unless its construction failed; no timers; the device cache of the
\* Kasa manager is empty until a discovery
ExecInit ==
  /\ task_manager \in BOOLEAN
  /\ calendar_manager \in BOOLEAN
  /\ kasa_manager \in BOOLEAN
  /\ weather_manager \in BOOLEAN
  /\ news_manager \in BOOLEAN
  /\ Cardinality({ i \in 1..5 :
                     ~<<task_manager, calendar_manager, kasa_manager,
                        weather_manager, news_manager>>[i] }) <= MaxMissing
  /\ devices = <<>>
  /\ active_timers = <<>>
  /\ event_loop = "none"
  /\ timer_lock = "free"
  /\ light_pc = NotInLight
  /\ info_pc = "idle"
  /\ SettingsIdle
  /\ pending_timer = NoTimer
  /\ duration_text = <<>>
  /\ parsed = NotParsed
  /\ clock = 0
  /\ request = NoRequest
  /\ result = NoResult
  /\ exception = NoException
  /\ calls = <<>>

\* the executor is constructed and not used
ExecIdle ==
  /\ task_manager = TRUE
  /\ calendar_manager = TRUE
  /\ kasa_manager = TRUE
  /\ weather_manager = TRUE
  /\ news_manager = TRUE
  /\ devices = <<>>
  /\ active_timers = <<>>
  /\ event_loop = "none"
  /\ timer_lock = "free"
  /\ light_pc = NotInLight
  /\ info_pc = "idle"
  /\ SettingsIdle
  /\ pending_timer = NoTimer
  /\ duration_text = <<>>
  /\ parsed = NotParsed
  /\ clock = 0
  /\ request = NoRequest
  /\ result = NoResult
  /\ exception = NoException
  /\ calls = <<>>

\* execute(func_name, params), lines 89-118
execute(func_name, params) ==
  /\ request = NoRequest
  /\ \E outcome \in Dispatch(func_name, params) :
       /\ result' =
            IF ~outcome.raised THEN outcome.ret
            ELSE IF Catches(outcome)
              THEN Failure(<<"Error: ", outcome.exc>>)
            ELSE NoResult
       /\ exception' =
            [exc |-> outcome.exc,
             handled_by |->
               IF ~outcome.raised THEN outcome.handled
               ELSE IF Catches(outcome) THEN "execute"
               ELSE "caller"]
       /\ devices' = outcome.devices
       /\ active_timers' = outcome.active_timers
       /\ event_loop' = outcome.event_loop
       /\ calls' = outcome.calls
  /\ request' = [func_name |-> func_name, params |-> params]
  /\ UNCHANGED <<task_manager, calendar_manager, kasa_manager,
                 weather_manager, news_manager, pending_timer,
                 duration_text, parsed, clock>>
  /\ UNCHANGED tvars
  /\ UNCHANGED svars
  /\ UNCHANGED qvars

\* the caller has taken the result of its call
Done ==
  /\ request # NoRequest
  /\ request' = NoRequest
  /\ result' = NoResult
  /\ exception' = NoException
  /\ calls' = <<>>
  /\ UNCHANGED <<task_manager, calendar_manager, kasa_manager,
                 weather_manager, news_manager, devices, active_timers,
                 event_loop, pending_timer, duration_text, parsed, clock>>
  /\ UNCHANGED tvars
  /\ UNCHANGED svars
  /\ UNCHANGED qvars

\* time.time() advances between two calls
Elapse ==
  /\ request = NoRequest
  /\ clock < MaxClock
  /\ clock' = clock + 1
  /\ UNCHANGED <<task_manager, calendar_manager, kasa_manager,
                 weather_manager, news_manager, devices, active_timers,
                 event_loop, pending_timer, duration_text, parsed, request,
                 result, exception, calls>>
  /\ UNCHANGED tvars
  /\ UNCHANGED svars
  /\ UNCHANGED qvars

\* between two calls of the first thread, a second thread runs _set_timer up
\* to the lock (lines 263-277): with a duration above 0 it builds its
\* ActiveTimer from the time it reads
SetTimerBuild(params) ==
  /\ request = NoRequest
  /\ pending_timer = NoTimer
  /\ params.isdict
  /\ Get(params, "duration", "") # NotAString
  /\ LET seconds == _parse_duration(Chars(Get(params, "duration", "")))
     IN  /\ seconds > 0
         /\ pending_timer' =
              ActiveTimer(Get(params, "label", "Timer"), seconds, clock)
  /\ UNCHANGED <<task_manager, calendar_manager, kasa_manager,
                 weather_manager, news_manager, devices, active_timers,
                 event_loop, duration_text, parsed, clock, request, result,
                 exception, calls>>
  /\ UNCHANGED tvars
  /\ UNCHANGED svars
  /\ UNCHANGED qvars

\* the second thread takes _timer_lock and stores its timer (lines 279-280)
SetTimerStore ==
  /\ request = NoRequest
  /\ pending_timer # NoTimer
  /\ timer_lock = "free"
  /\ active_timers' = SetItem(active_timers, pending_timer)
  /\ pending_timer' = NoTimer
  /\ UNCHANGED <<task_manager, calendar_manager, kasa_manager,
                 weather_manager, news_manager, devices, event_loop,
                 duration_text, parsed, clock, request, result, exception,
                 calls>>
  /\ UNCHANGED tvars
  /\ UNCHANGED svars
  /\ UNCHANGED qvars

\* a call of _parse_duration (lines 288-312) on the phrase
ParseDuration ==
  /\ parsed = NotParsed
  /\ parsed' = _parse_duration(duration_text)
  /\ UNCHANGED <<task_manager, calendar_manager, kasa_manager,
                 weather_manager, news_manager, devices, active_timers,
                 event_loop, pending_timer, duration_text, clock, request,
                 result, exception, calls>>
  /\ UNCHANGED tvars
  /\ UNCHANGED svars
  /\ UNCHANGED qvars

(***************************************************************************)
(* The threads of the executor, step by step                               *)
(***************************************************************************)
\* (mutant) one coarse lock: every action holds _timer_lock from its start to
\* its return
HeldWhileAwaiting_Broken(method) == {"_timer_lock"}
\* the locks a method holds while it awaits a collaborator:
\* _async_control_light (lines 130-260) takes no lock at all, and
\* _get_system_info leaves its `with self._timer_lock` block (lines 496-504)
\* before the first query of line 507
HeldWhileAwaiting(method) == {}

\* what the steps below leave alone
ThreadFrame ==
  /\ UNCHANGED <<task_manager, calendar_manager, kasa_manager,
                 weather_manager, news_manager, event_loop, duration_text,
                 parsed, request, result, exception, calls>>
  /\ UNCHANGED svars
  /\ UNCHANGED qvars

\* a thread calls control_light: it awaits the discovery of line 144 when the
\* cache is empty, else a device call of lines 192-248
LightBegin ==
  /\ light_pc = NotInLight
  /\ kasa_manager
  /\ IF "_timer_lock" \in HeldWhileAwaiting("control_light")
     THEN timer_lock = "free" /\ timer_lock' = "light"
     ELSE timer_lock' = timer_lock
  /\ light_pc' = [at |-> IF devices = <<>> THEN "discover_devices"
                         ELSE "device_call",
                  since |-> clock]
  /\ UNCHANGED <<devices, active_timers, pending_timer, info_pc, clock>>
  /\ ThreadFrame

\* the discovery answers: it raises or leaves no device and the call
\* returns, or it fills the cache and the call goes on to its devices
LightDiscovered ==
  /\ light_pc.at = "discover_devices"
  /\ \E d \in DiscoverAnswers :
       /\ devices' = d.found
       /\ light_pc' = IF d.raised \/ d.found = <<>> THEN NotInLight
                      ELSE [light_pc EXCEPT !.at = "device_call"]
       /\ timer_lock' = IF (d.raised \/ d.found = <<>>)
                            /\ timer_lock = "light"
                         THEN "free" ELSE timer_lock
  /\ UNCHANGED <<active_timers, pending_timer, info_pc, clock>>
  /\ ThreadFrame

\* the device calls have answered and control_light returns
LightReturn ==
  /\ light_pc.at = "device_call"
  /\ light_pc' = NotInLight
  /\ timer_lock' = IF timer_lock = "light" THEN "free" ELSE timer_lock
  /\ UNCHANGED <<devices, active_timers, pending_timer, info_pc, clock>>
  /\ ThreadFrame

\* a thread calls get_system_info and takes the timer lock (line 496)
InfoLock ==
  /\ info_pc = "idle"
  /\ SettingsIdle
  /\ timer_lock = "free"
  /\ timer_lock' = "info"
  /\ info_pc' = "enumerate"
  /\ UNCHANGED <<devices, active_timers, pending_timer, light_pc, clock>>
  /\ ThreadFrame

\* lines 497-504: the enumeration, at the end of which the lock is released
InfoEnumerate ==
  /\ info_pc = "enumerate"
  /\ active_timers' =
       SelectSeq(active_timers, LAMBDA timer : ~is_expired(timer))
  /\ timer_lock' = IF "_timer_lock" \in HeldWhileAwaiting("get_system_info")
                   THEN timer_lock ELSE "free"
  /\ info_pc' = "query"
  /\ UNCHANGED <<devices, pending_timer, light_pc, clock>>
  /\ ThreadFrame

\* lines 507-571: the collaborators have answered and get_system_info returns
InfoReturn ==
  /\ info_pc = "query"
  /\ info_pc' = "idle"
  /\ timer_lock' = IF timer_lock = "info" THEN "free" ELSE timer_lock
  /\ UNCHANGED <<devices, active_timers, pending_timer, light_pc, clock>>
  /\ ThreadFrame

ExecNext ==
  \/ \E func_name \in FuncNames \cup {UnknownName} :
       \E params \in Requests(func_name) : execute(func_name, params)
  \/ Done
  \/ Elapse

(***************************************************************************)
(* Specifications                                                          *)
(***************************************************************************)
\* the lifecycle manager runs next to an executor that is not used
Init == QwenInit /\ ExecIdle

QwenSpec == Init /\ [][QwenNext]_vars

\* every thread that can run is eventually scheduled, and time passes
QwenFairSpec ==
  /\ QwenSpec
  /\ \A t \in Threads : WF_vars(ThreadStep(t))
  /\ WF_vars(Tick)

\* moreover a thread that waits at `with self.lock` gets the lock when it is
\* released again and again: callers that keep calling do not starve it
QwenLockFairSpec ==
  /\ QwenFairSpec
  /\ \A t \in Threads : SF_vars(Acquire(t))

\* the settings store is used next to a lifecycle manager and an executor
\* that are not: the key paths and the values of the calls
KeyPaths == {"theme", "tts", "tts.speed", "tts.voice", "extra.k", "theme.x"}
SetPaths == {"theme", "tts.speed", "extra.k", "theme.x"}
SetValues(key_path) == IF key_path = "tts.speed" THEN {"2.0"} ELSE {"Light"}

InitSettings ==
  /\ QwenInit
  /\ task_manager = TRUE
  /\ calendar_manager = TRUE
  /\ kasa_manager = TRUE
  /\ weather_manager = TRUE
  /\ news_manager = TRUE
  /\ devices = <<>>
  /\ active_timers = <<>>
  /\ event_loop = "none"
  /\ timer_lock = "free"
  /\ light_pc = NotInLight
  /\ info_pc = "idle"
  /\ SettingsInit
  /\ pending_timer = NoTimer
  /\ duration_text = <<>>
  /\ parsed = NotParsed
  /\ clock = 0
  /\ request = NoRequest
  /\ result = NoResult
  /\ exception = NoException
  /\ calls = <<>>

SettingsNext ==
  \/ \E key_path \in SetPaths : \E value \in SetValues(key_path) :
       set(key_path, value)
  \/ \E key_path \in KeyPaths : GetCall(key_path)
  \/ reset_to_defaults

SettingsSpec == InitSettings /\ [][SettingsNext]_vars

\* the executor is used next to a lifecycle manager that is not
InitExec == QwenInit /\ ExecInit

ExecSpec == InitExec /\ [][ExecNext]_vars

(***************************************************************************)
(* The executor used for light control only                                *)
(***************************************************************************)
\* device phrases, actions, colours and brightness of the light requests
LightPhrases == {Absent, "All", "office", "Kitchen Lights", "garage"}
LightActions == {Absent, "on", "off", "toggle", "dim", "color"}
LightColors == {Absent, "Blue", "teal"}
LightBrightness == {NoBrightness, 50}

LightRequests ==
  { [NoParams EXCEPT !.device_name = d, !.action = a, !.color = c,
                     !.brightness = b]
    : d \in LightPhrases, a \in LightActions, c \in LightColors,
      b \in LightBrightness }

\* the cache of the Kasa manager is empty, or filled by an earlier discovery
\* with the three lights of test_fuzzy_light.py (lines 26-30)
InitLight ==
  /\ QwenInit
  /\ task_manager = TRUE
  /\ calendar_manager = TRUE
  /\ kasa_manager = TRUE
  /\ weather_manager = TRUE
  /\ news_manager = TRUE
  /\ devices \in {<<>>, <<1, 2, 3>>}
  /\ active_timers = <<>>
  /\ event_loop = "none"
  /\ timer_lock = "free"
  /\ light_pc = NotInLight
  /\ info_pc = "idle"
  /\ SettingsIdle
  /\ pending_timer = NoTimer
  /\ duration_text = <<>>
  /\ parsed = NotParsed
  /\ clock = 0
  /\ request = NoRequest
  /\ result = NoResult
  /\ exception = NoException
  /\ calls = <<>>

LightNext ==
  \/ \E params \in LightRequests : execute("control_light", params)
  \/ Done

LightSpec == InitLight /\ [][LightNext]_vars

\* the timers: set_timer and get_system_info of one thread, a second thread
\* in set_timer, and the clock
TimerLabels == {Absent, "tea"}
TimerDurations == {Absent, "1 second", "1 minute", "soon"}
TimerRequests ==
  { [NoParams EXCEPT !.duration = d, !.label = l]
    : d \in TimerDurations, l \in TimerLabels }

InitTimer == QwenInit /\ ExecIdle

TimerNext ==
  \/ \E params \in TimerRequests : execute("set_timer", params)
  \/ execute("get_system_info", NoParams)
  \/ \E params \in TimerRequests : SetTimerBuild(params)
  \/ SetTimerStore
  \/ Done
  \/ Elapse

TimerSpec == InitTimer /\ [][TimerNext]_vars

\* three threads of one executor: one in set_timer, one in control_light and
\* one in get_system_info, and the clock
LockNext ==
  \/ \E params \in TimerRequests : SetTimerBuild(params)
  \/ SetTimerStore
  \/ LightBegin
  \/ LightDiscovered
  \/ LightReturn
  \/ InfoLock
  \/ InfoEnumerate
  \/ InfoReturn
  \/ Elapse

LockSpec == InitTimer /\ [][LockNext]_vars

\* a thread that holds the timer lock goes on to release it, and a thread
\* that waits for the lock gets it when it is free again and again; the
\* collaborators (discovery, device calls, the queries of get_system_info)
\* need not ever answer
LockFairSpec ==
  /\ LockSpec
  /\ WF_vars(InfoEnumerate)
  /\ SF_vars(SetTimerStore)

\* _parse_duration on every phrase of at most MaxPhraseLen characters over
\* digits, white space, unit letters in both cases and another letter, and on
\* the phrases of its docstring
PhraseChars == {"0", "1", "2", " ", "h", "M", "s", "x"}
DurationPhrases ==
  UNION { [1..n -> PhraseChars] : n \in 0..MaxPhraseLen }
    \cup { Chars("1 hour 30 minutes"), Chars("10 minutes"), Chars("45") }

InitParse ==
  /\ QwenInit
  /\ task_manager = TRUE
  /\ calendar_manager = TRUE
  /\ kasa_manager = TRUE
  /\ weather_manager = TRUE
  /\ news_manager = TRUE
  /\ devices = <<>>
  /\ active_timers = <<>>
  /\ event_loop = "none"
  /\ timer_lock = "free"
  /\ light_pc = NotInLight
  /\ info_pc = "idle"
  /\ SettingsIdle
  /\ pending_timer = NoTimer
  /\ duration_text \in DurationPhrases
  /\ parsed = NotParsed
  /\ clock = 0
  /\ request = NoRequest
  /\ result = NoResult
  /\ exception = NoException
  /\ calls = <<>>

ParseSpec == InitParse /\ [][ParseDuration]_vars

(***************************************************************************)
(* Properties of the executor                                              *)
(***************************************************************************)
\* r is a result mapping: success, a message that is not empty, and data
IsEnvelope(r) ==
  /\ DOMAIN r = {"success", "message", "data"}
  /\ r.success \in BOOLEAN
  /\ r.message # <<>>

\* the diagnostics built from an exception e (lines 118, 128 and 478)
Diagnostics(e) ==
  { <<"Error: ", e>>, <<"Light control failed: ", e>>,
    <<"Search failed: ", e>> }

\* C1: for every action name and every params value, execute returns a result
\* mapping and raises nothing to its caller; when an exception ended the
\* handler, the result is success false, data None and a message that carries
\* the exception.
C1_ExecuteNeverRaises ==
  request # NoRequest =>
    /\ exception.handled_by # "caller"
    /\ IsEnvelope(result)
    /\ exception.exc # "" =>
         /\ ~result.success
         /\ result.data = None
         /\ result.message \in Diagnostics(exception.exc)

C1_Witness ==
  /\ request.func_name = "set_timer"
  /\ request.params.duration = NotAString
  /\ exception = [exc |-> "AttributeError", handled_by |-> "execute"]
  /\ result = Failure(<<"Error: ", "AttributeError">>)

\* the last call is a get_system_info
InfoCall == request.func_name = "get_system_info"

\* what the collaborator method fn answered in the last call, "skipped" when
\* it was not called
AnswerOf(fn) ==
  IF \E j \in 1..Len(calls) : calls[j].fn = fn
  THEN calls[CHOOSE j \in 1..Len(calls) : calls[j].fn = fn].answer
  ELSE "skipped"

\* C21: get_system_info returns success whatever its collaborators do, and
\* the failure of one collaborator empties its own field only: every field
\* whose collaborator answered is populated. Alarms, calendar, tasks and news
\* hold the rows of their collaborator, the weather field holds the weather
\* whenever get_weather answered with its mapping, the devices are those of
\* the cache and the timers those that have not expired.
C21_FailuresAreIsolated ==
  InfoCall =>
    /\ result.success /\ exception.exc = ""
    /\ result.data.alarms =
         IF AnswerOf("get_alarms") = "rows" THEN "rows" ELSE "[]"
    /\ result.data.calendar_today =
         IF AnswerOf("get_events") = "rows" THEN "rows" ELSE "[]"
    /\ result.data.tasks =
         IF AnswerOf("get_tasks") = "rows" THEN "rows" ELSE "[]"
    /\ result.data.news =
         IF AnswerOf("get_briefing") = "items" THEN "items" ELSE "[]"
    /\ result.data.weather =
         IF AnswerOf("get_weather") = "mapping" THEN "weather" ELSE "None"
    /\ result.data.smart_devices =
         IF kasa_manager THEN DeviceEntries ELSE <<>>
    /\ result.data.timers = TimerEntries(active_timers)

\* what does hold of get_system_info: it returns success, every collaborator
\* that is set is queried whatever the others answered, and every field but
\* the weather is populated exactly when its own collaborator answered
C21_OtherFieldsIsolated ==
  InfoCall =>
    /\ result.success /\ exception.exc = ""
    /\ result.message = <<"System info retrieved">>
    /\ task_manager => AnswerOf("get_alarms") # "skipped"
    /\ task_manager => AnswerOf("get_tasks") # "skipped"
    /\ calendar_manager => AnswerOf("get_events") # "skipped"
    /\ weather_manager => AnswerOf("get_weather") # "skipped"
    /\ news_manager => AnswerOf("get_briefing") # "skipped"
    /\ result.data.alarms =
         IF AnswerOf("get_alarms") = "rows" THEN "rows" ELSE "[]"
    /\ result.data.calendar_today =
         IF AnswerOf("get_events") = "rows" THEN "rows" ELSE "[]"
    /\ result.data.tasks =
         IF AnswerOf("get_tasks") = "rows" THEN "rows" ELSE "[]"
    /\ result.data.news =
         IF AnswerOf("get_briefing") = "items" THEN "items" ELSE "[]"
    /\ result.data.weather = "None"
    /\ result.data.smart_devices =
         IF kasa_manager THEN DeviceEntries ELSE <<>>
    /\ result.data.timers = TimerEntries(active_timers)

\* the weather query raised and the queries after and before it filled
\* their fields
C21_WeatherRaised ==
  /\ InfoCall /\ result.success
  /\ AnswerOf("get_weather") = "raise" /\ result.data.weather = "None"
  /\ result.data.alarms = "rows" /\ result.data.calendar_today = "rows"
  /\ result.data.tasks = "rows" /\ result.data.news = "items"
  /\ result.data.smart_devices # <<>>

\* a step that is a call of execute with a name that is no action name
UnknownStep ==
  /\ request = NoRequest /\ request' # NoRequest
  /\ request'.func_name \notin FuncNames

\* C22: an unknown action name returns exactly the failure envelope
\* "Unknown function: <name>" with no data, which is not the message of the
\* generic handler error ("Error: ..."); no collaborator is called and the
\* managers, the device cache, the timer registry and the event loop are as
\* they were.
C22_UnknownFunction ==
  [][UnknownStep =>
       /\ result' = [success |-> FALSE,
                     message |-> <<"Unknown function: ", request'.func_name>>,
                     data |-> None]
       /\ result'.message[1] # "Error: "
       /\ exception' = NoException
       /\ calls' = <<>>
       /\ UNCHANGED <<task_manager, calendar_manager, kasa_manager,
                      weather_manager, news_manager, devices, active_timers,
                      event_loop, clock>>]_vars

\* an unknown name was refused while timers and devices were held
C22_Witness ==
  /\ request.func_name = UnknownName
  /\ result.message = <<"Unknown function: ", UnknownName>>
  /\ active_timers # <<>> /\ devices # <<>>

\* the last call is an add_task whose params hold no text or an empty one
EmptyTaskCall ==
  /\ request.func_name = "add_task" /\ request.params.isdict
  /\ request.params.text \in {Absent, ""}

\* C23: add_task with a missing or empty text returns success = false and
\* calls no method of the task store, whether the task store is set or not.
C23_EmptyTaskNotStored ==
  EmptyTaskCall =>
    /\ ~result.success
    /\ exception = NoException
    /\ \A i \in 1..Len(calls) : calls[i].fn # "add_task"
    /\ calls = <<>>

\* an empty text was refused by an executor whose task store is set
C23_Witness ==
  /\ EmptyTaskCall /\ task_manager
  /\ result = Failure(<<"No task text provided">>)

\* a missing text was refused by an executor whose task store is not set
C23_WitnessNoStore ==
  /\ EmptyTaskCall /\ ~task_manager /\ request.params.text = Absent
  /\ result = Failure(<<"No task text provided">>)

\* the message of the last call when the manager its action needs is None,
\* <<>> when the action needs no manager or its manager is set
Unavailable ==
  CASE request.func_name = "control_light" /\ ~kasa_manager ->
         <<"Kasa manager not available">>
    [] request.func_name = "set_alarm" /\ ~task_manager ->
         <<"Task manager not available">>
    [] request.func_name = "create_calendar_event" /\ ~calendar_manager ->
         <<"Calendar manager not available">>
    [] /\ request.func_name = "add_task" /\ ~task_manager
       /\ request.params.text \notin {Absent, ""} ->
         <<"Task manager not available">>
    [] OTHER -> <<>>

\* the last call is a set_timer with a duration that parses to a positive
\* number of seconds
TimerCall ==
  /\ request.func_name = "set_timer" /\ request.params.isdict
  /\ request.params.duration # NotAString
  /\ _parse_duration(Chars(Get(request.params, "duration", ""))) > 0

\* C24: when the manager an action needs is None (its construction failed),
\* control_light, set_alarm, create_calendar_event and add_task with a text
\* return a failure for that call: nothing is raised, no collaborator is
\* called, and the message says which manager is not available. set_timer,
\* which needs no manager, succeeds whichever manager is None.
C24_UnavailableManager ==
  /\ Unavailable # <<>> =>
       /\ ~result.success /\ result.data = None
       /\ exception.handled_by # "caller"
       /\ calls = <<>>
       /\ request.params.isdict =>
            /\ result.message = Unavailable
            /\ exception = NoException
  /\ TimerCall => result.success /\ exception = NoException

\* a set_alarm was refused by an executor whose task manager is None
C24_Witness ==
  /\ ~task_manager /\ request.func_name = "set_alarm"
  /\ request.params.time = "7am"
  /\ result = Failure(<<"Task manager not available">>)

\* a timer was set by an executor whose task manager is None
C24_WitnessTimer ==
  /\ ~task_manager /\ TimerCall /\ result.success
  /\ active_timers # <<>>

(***************************************************************************)
(* Properties of light control                                             *)
(***************************************************************************)
\* the last call was control_light with a mapping as params
LightCall == request.func_name = "control_light" /\ request.params.isdict

\* the values control_light read from params (lines 132-135)
LightPhrase == Get(request.params, "device_name", "light")
LightAction == Get(request.params, "action", "toggle")

\* the backend calls of the last call that name a device, in order
DeviceCalls == SelectSeq(calls, LAMBDA c : c.ip # NoDevice)

\* the devices that received a backend call in the last call
Controlled == { calls[i].ip : i \in { j \in 1..Len(calls) : calls[j].ip # NoDevice } }

\* the number of discoveries of the last call
Discoveries ==
  Cardinality({ i \in 1..Len(calls) : calls[i].fn = "discover_devices" })

\* the lowercased colour names of the palette
Palette == DOMAIN colors

\* the request names an action that has a branch in the loop body: on (with
\* no colour or a palette colour), off, toggle, or dim with a brightness
ActionApplies ==
  \/ LightAction \in {"off", "toggle"}
  \/ LightAction = "on" /\ ~Truthy(request.params.color)
  \/ LightAction = "on" /\ LowerStr(Chars(request.params.color)) \in Palette
  \/ LightAction = "dim" /\ request.params.brightness # NoBrightness

\* the devices of a cache that a phrase selects, as C11 words it
Selected(cache, phrase) ==
  LET p == LowerStr(Chars(phrase))
      name(ip) == LowerStr(Chars(Alias[ip]))
  IN  { cache[i] : i \in { j \in 1..Len(cache) :
          \/ p \in {Chars("all"), Chars("lights"), Chars("light"),
                     Chars("everything")}
          \/ Contains(name(cache[j]), p)
          \/ Contains(p, name(cache[j])) } }

\* C11: a control_light call sends backend calls to exactly the cached
\* devices that the phrase selects: all of them for
\* all/lights/light/everything, otherwise those whose lowercased name contains
\* the lowercased phrase or is contained in it.
C11_EverySelectedDeviceActs ==
  (LightCall /\ ActionApplies) =>
    Controlled = Selected(devices, LightPhrase)

\* the same on the calls that no exception ended
C11_TargetResolution ==
  (LightCall /\ exception.exc = "" /\ ActionApplies) =>
    Controlled = Selected(devices, LightPhrase)

C11_Witness ==
  /\ LightCall /\ LightPhrase = "office" /\ LightAction = "off"
  /\ devices = <<1, 2, 3>>
  /\ Controlled = {1, 2}
  /\ result.success

\* a step that is a control_light call with a mapping as params
LightStep == request = NoRequest /\ LightCall'

\* C12: when the phrase matches no device of a cache that is not empty,
\* control_light makes exactly one rediscovery; when the phrase matches no
\* device of the rediscovered cache either, the result is a failure whose
\* message names the phrase, and no device receives a backend call.
C12_OneRediscovery ==
  [][(LightStep /\ devices # <<>> /\ Selected(devices, LightPhrase') = {}) =>
       /\ Discoveries' = 1
       /\ (exception'.exc = "" /\ Selected(devices', LightPhrase') = {}) =>
            /\ result' = Failure(<<"Device '", LightPhrase', "' not found">>)
            /\ Controlled' = {}]_vars

C12_Witness ==
  /\ LightCall /\ LightPhrase = "garage"
  /\ calls = <<Answered("discover_devices", NoDevice, <<>>, "devices")>>
  /\ devices = <<1, 2>>
  /\ result = Failure(<<"Device '", "garage", "' not found">>)

\* the calls of the last call whose answer is the success of a device: every
\* device call but the state query of a toggle and the turn_on that follows
\* a set_hsv
ControlCalls ==
  { j \in 1..Len(calls) :
      /\ calls[j].ip # NoDevice
      /\ calls[j].fn # "_get_light_module"
      /\ ~(/\ calls[j].fn = "turn_on" /\ j > 1
           /\ calls[j - 1].fn = "set_hsv" /\ calls[j - 1].ip = calls[j].ip) }

\* the devices whose control call answered True
Succeeded == { calls[j].ip : j \in { k \in ControlCalls : calls[k].answer = "True" } }

\* the devices whose display name the message of the result holds
NamedDevices ==
  { ip \in DOMAIN Alias :
      \E k \in 1..Len(result.message) : result.message[k] = Alias[ip] }

\* C13: the result of a control_light batch is a success exactly when the
\* control call of at least one matched device succeeded, and the message of
\* a success names exactly the devices that succeeded.
C13_AggregateResult ==
  LightCall =>
    /\ result.success <=> Succeeded # {}
    /\ result.success => NamedDevices = Succeeded

\* the same on the calls that no exception ended
C13_AggregateOfReturns ==
  (LightCall /\ exception.exc = "") =>
    /\ result.success <=> Succeeded # {}
    /\ result.success => NamedDevices = Succeeded

\* C14: once a control_light batch has started, every matched device is
\* attempted and every device that succeeded is named in the result, whether
\* the call of another device answered False or raised.
C14_BatchNotAborted ==
  (LightCall /\ Controlled # {}) =>
    /\ Controlled = Selected(devices, LightPhrase)
    /\ Succeeded \subseteq NamedDevices

\* the same on the batches in which no device call raised
C14_FalseDoesNotAbort ==
  (LightCall /\ Controlled # {} /\ exception.exc = "") =>
    /\ Controlled = Selected(devices, LightPhrase)
    /\ Succeeded \subseteq NamedDevices

\* a control_light call with action "color" and a colour of the palette on a
\* phrase that selects devices, which no exception ended
ColorCall ==
  /\ LightCall /\ LightAction = "color" /\ exception.exc = ""
  /\ Truthy(request.params.color)
  /\ LowerStr(Chars(request.params.color)) \in Palette
  /\ Selected(devices, LightPhrase) # {}

\* C15: control_light with action "color" and a palette colour on a phrase
\* that matches devices succeeds when no device call fails: every matched
\* device receives a set_hsv call, and the message holds "Set color to
\* <colour> for <display name>" for every device whose set_hsv answered True.
C15_ColorAction ==
  ColorCall =>
    /\ \A ip \in Selected(devices, LightPhrase) :
         \E j \in 1..Len(calls) : calls[j].fn = "set_hsv" /\ calls[j].ip = ip
    /\ (\A j \in 1..Len(calls) :
          calls[j].ip # NoDevice => calls[j].answer = "True")
         => result.success
    /\ \A j \in 1..Len(calls) :
         (calls[j].fn = "set_hsv" /\ calls[j].answer = "True") =>
           Contains(result.message,
                    <<"Set color to ", request.params.color, " for", " ",
                      Alias[calls[j].ip]>>)

\* no device call of the last call answered False or None, or raised
NoBackendFailure ==
  \A j \in 1..Len(calls) :
    calls[j].ip # NoDevice => calls[j].answer \in {"True", "on", "off"}

\* C16: a control_light call returns with its event loop closed, and a call
\* whose action has a branch, whose phrase selects cached devices and whose
\* backend calls all succeed returns a success, whatever calls came before
\* it on the same executor.
C16_OwnAsyncSequence ==
  LightCall =>
    /\ event_loop = "closed"
    /\ (ActionApplies /\ Selected(devices, LightPhrase) # {}
          /\ NoBackendFailure)
         => (result.success /\ exception.exc = "")

\* a colour change of two backend calls per device succeeded on a cache that
\* the discovery of an earlier call has filled
C16_Witness ==
  /\ LightCall /\ LightAction = "on" /\ request.params.color = "Blue"
  /\ devices = <<1, 2>>
  /\ Discoveries = 0
  /\ Len(calls) = 4
  /\ event_loop = "closed"
  /\ result.success

\* a step that is a control_light call made with an empty device cache
EmptyCacheStep == LightStep /\ kasa_manager /\ devices = <<>>

\* C30: when the device cache is empty at the start of control_light, the
\* first thing the call does is one discovery; when that discovery leaves
\* the cache empty, the call returns the failure "No smart devices found"
\* after that one discovery, and no device receives a call.
C30_DiscoveryOnEmptyCache ==
  [][EmptyCacheStep =>
       /\ calls' # <<>>
       /\ calls'[1].fn = "discover_devices"
       /\ calls'[1].answer = "[]" =>
            /\ result' = Failure(<<"No smart devices found">>)
            /\ exception' = NoException
            /\ Discoveries' = 1
            /\ Controlled' = {}
            /\ Len(calls') = 1
            /\ devices' = <<>>]_vars

\* a request for the office light found no device at all
C30_Witness ==
  /\ LightCall /\ LightPhrase = "office"
  /\ devices = <<>>
  /\ calls = <<Answered("discover_devices", NoDevice, <<>>, "[]")>>
  /\ result = Failure(<<"No smart devices found">>)

\* the last call is a control_light whose action is toggle (the default)
ToggleCall == LightCall /\ LightAction = "toggle"

\* the call at place j of the last call flips a device
IsFlip(j) == calls[j].ip # NoDevice /\ calls[j].fn \in {"turn_on", "turn_off"}

\* C31: in a toggle request every device is flipped from its live state: the
\* call that flips a device comes right after the query of the live state of
\* that device; the query is followed by turn_off exactly when it reports on
\* and by turn_on exactly when it reports off, whatever the cache holds; and
\* a query that yields no device is followed by no control call of that
\* device, which is not named in the message.
C31_ToggleFromLiveState ==
  ToggleCall =>
    /\ \A j \in 1..Len(calls) :
         IsFlip(j) =>
           /\ j > 1
           /\ calls[j - 1].fn = "_get_light_module"
           /\ calls[j - 1].ip = calls[j].ip
           /\ calls[j].fn = "turn_off" <=> calls[j - 1].answer = "on"
           /\ calls[j].fn = "turn_on" <=> calls[j - 1].answer = "off"
    /\ \A j \in 1..Len(calls) :
         calls[j].fn = "_get_light_module" =>
           /\ calls[j].answer \in {"on", "off"} =>
                j < Len(calls) /\ IsFlip(j + 1) /\ calls[j + 1].ip = calls[j].ip
           /\ calls[j].answer = "None" =>
                /\ \A k \in 1..Len(calls) :
                     calls[k].ip = calls[j].ip => k = j
                /\ ~Contains(result.message, <<Alias[calls[j].ip]>>)
    /\ \A j \in 1..Len(calls) :
         calls[j].ip # NoDevice => IsFlip(j) \/ calls[j].fn = "_get_light_module"

\* a toggle of the office lights turned one off that was on and one on that
\* was off, against the state that the cache holds for each
C31_Witness ==
  /\ ToggleCall /\ LightPhrase = "office" /\ result.success
  /\ Len(calls) = 4
  /\ calls[1] = Answered("_get_light_module", 1, <<>>, "off")
  /\ calls[2].fn = "turn_on"
  /\ calls[3] = Answered("_get_light_module", 2, <<>>, "on")
  /\ calls[4].fn = "turn_off"
  /\ CachedIsOn[1] /\ ~CachedIsOn[2]

\* no discovery of the last call raised
DiscoveryReturned ==
  \A j \in 1..Len(calls) :
    calls[j].fn = "discover_devices" => calls[j].answer # "raise"

\* the last call is a control_light "on" with a colour name that the palette
\* does not hold, on a phrase that selects devices
UnknownColorCall ==
  /\ LightCall /\ LightAction = "on"
  /\ Truthy(request.params.color) /\ request.params.color # NotAString
  /\ LowerStr(Chars(request.params.color)) \notin Palette
  /\ DiscoveryReturned /\ Selected(devices, LightPhrase) # {}

\* C32: control_light "on" with a colour name outside the palette raises
\* nothing: no matched device receives a set_hsv, a turn_on or any other
\* call, no device is counted as a success, and the call returns the failure
\* "Failed to control any devices".
C32_UnknownColor ==
  UnknownColorCall =>
    /\ exception = NoException
    /\ Controlled = {}
    /\ result = Failure(<<"Failed to control any devices">>)

\* the office lights were asked for teal
C32_Witness ==
  /\ UnknownColorCall /\ request.params.color = "teal"
  /\ LightPhrase = "office" /\ devices = <<1, 2>>
  /\ result = Failure(<<"Failed to control any devices">>)

\* C38: one control_light call makes at most two discoveries, the first of
\* two only for an empty cache and the second only as the retry after no
\* match; it makes none when the cache is filled and the phrase matches a
\* device of it; and the device cache changes only in a call whose discovery
\* returned.
C38_DiscoveryBudget ==
  [][LightStep =>
       /\ Discoveries' <= 2
       /\ Discoveries' = 2 => devices = <<>>
       /\ (devices # <<>> /\ Selected(devices, LightPhrase') # {})
            => Discoveries' = 0
       /\ devices' # devices =>
            \E j \in 1..Len(calls') :
              /\ calls'[j].fn = "discover_devices"
              /\ calls'[j].answer # "raise"]_vars

\* the kitchen light was found by the second discovery of a call that began
\* with an empty cache
C38_Witness ==
  /\ LightCall /\ LightPhrase = "Kitchen Lights" /\ LightAction = "off"
  /\ Discoveries = 2 /\ Len(calls) = 3
  /\ devices = <<3, 1>> /\ Controlled = {3}
  /\ result.success

\* a call on a filled cache whose phrase matched made no discovery
C38_NoDiscovery ==
  /\ LightCall /\ LightPhrase = "office" /\ Discoveries = 0
  /\ devices = <<1, 2, 3>> /\ Controlled = {1, 2}

\* the last call is a control_light whose action has no branch in the loop
\* body: a name other than on, off, toggle and dim, or dim with no
\* brightness, on a phrase that selects devices
NoBranchCall ==
  /\ LightCall
  /\ \/ LightAction \notin {"on", "off", "toggle", "dim"}
     \/ LightAction = "dim" /\ request.params.brightness = NoBrightness
  /\ DiscoveryReturned /\ Selected(devices, LightPhrase) # {}

C39_UnknownName ==
  /\ NoBranchCall /\ LightAction = "color" /\ LightPhrase = "All"
  /\ Controlled = {}
  /\ result = Failure(<<"Failed to control any devices">>)

\* the devices that the phrase of the last call selects, in cache order
Resolved ==
  SelectSeq(devices, LAMBDA ip : ip \in Selected(devices, LightPhrase))

\* the place of a device in the resolved order, 0 when it is not selected
Place(ip) ==
  IF \E i \in 1..Len(Resolved) : Resolved[i] = ip
  THEN CHOOSE i \in 1..Len(Resolved) : Resolved[i] = ip
  ELSE 0

\* the place of a display name in the message of the result, 0 when the
\* message does not hold it
Named(ip) ==
  IF \E n \in 1..Len(result.message) : result.message[n] = Alias[ip]
  THEN CHOOSE n \in 1..Len(result.message) : result.message[n] = Alias[ip]
  ELSE 0

\* the device calls of the last call come in resolved order, all calls of a
\* device before the first call of the next, and the message names the
\* devices in that order
InResolvedOrder ==
  /\ \A j, k \in 1..Len(calls) :
       (j < k /\ calls[j].ip # NoDevice /\ calls[k].ip # NoDevice) =>
         /\ Place(calls[j].ip) > 0
         /\ Place(calls[j].ip) <= Place(calls[k].ip)
  /\ \A i, k \in 1..Len(Resolved) :
       (i < k /\ Named(Resolved[i]) > 0 /\ Named(Resolved[k]) > 0) =>
         Named(Resolved[i]) < Named(Resolved[k])
  /\ \A i \in 1..Len(Resolved) :
       Named(Resolved[i]) > 0 => Resolved[i] \in Controlled
  /\ result.success => result.data.targets = TargetNames(Resolved)

\* a control_light call whose action has a branch, on a phrase that selects
\* devices
BatchCall ==
  /\ LightCall /\ ActionApplies
  /\ DiscoveryReturned /\ Resolved # <<>>

\* C33 (as claimed): the matched devices are controlled one after the other
\* in resolved order, the message lists them in that order, and the call
\* returns only when every matched device has had its control call.
C33_OrderedAndComplete ==
  BatchCall =>
    /\ InResolvedOrder
    /\ \A i \in 1..Len(Resolved) : Resolved[i] \in Controlled

\* what does hold: the order, and the control call of every matched device
\* in the calls that no exception ended
C33_OrderedUnlessRaised ==
  BatchCall =>
    /\ InResolvedOrder
    /\ exception.exc = "" =>
         \A i \in 1..Len(Resolved) : Resolved[i] \in Controlled

\* the kitchen light and the left office light of a cache in that order were
\* both switched on
C33_BothInOrder ==
  /\ BatchCall /\ devices = <<3, 1>> /\ LightAction = "on"
  /\ result.success /\ Controlled = {1, 3}
  /\ Named(3) > 0 /\ Named(3) < Named(1)

(***************************************************************************)
(* Properties of the timers                                                *)
(***************************************************************************)
\* a step that is a get_system_info call
InfoStep == request = NoRequest /\ request'.func_name = "get_system_info"

\* less than one second has passed since the timer was set
JustSet(timer) == clock - timer.start_time < TicksPerSecond

\* C17: a get_system_info that follows the set_timer of a timer by less than
\* a second keeps the timer in the registry and lists an entry with its
\* label, and the remaining time of the timer is its duration minus at most
\* the second that has begun; this for every duration above 0, 1 included.
C17_TimerJustSetIsListed ==
  [][InfoStep =>
       \A i \in 1..Len(active_timers) :
         JustSet(active_timers[i]) =>
           /\ \E k \in 1..Len(active_timers') :
                active_timers'[k] = active_timers[i]
           /\ \E k \in 1..Len(result'.data.timers) :
                result'.data.timers[k].label = active_timers[i].label
           /\ remaining_seconds(active_timers[i])
                >= active_timers[i].duration_seconds - 1]_vars

\* a step in which the first thread sets a timer
SetStep ==
  /\ request = NoRequest /\ request'.func_name = "set_timer"
  /\ result'.success

\* after the step the registry holds timer as the only entry of its label,
\* and the timers of the other labels are the ones it held before
Stored(timer) ==
  /\ \E i \in 1..Len(active_timers') :
       /\ active_timers'[i] = timer
       /\ \A j \in 1..Len(active_timers') :
            active_timers'[j].label = timer.label => j = i
  /\ \A i \in 1..Len(active_timers) :
       active_timers[i].label # timer.label =>
         \E j \in 1..Len(active_timers') : active_timers'[j] = active_timers[i]

\* C18: after every step the registry holds at most one ActiveTimer per
\* label, and a set_timer of either thread leaves under its label the timer
\* it built (its duration, the time it read), in place of an older timer of
\* that label.
C18_OneTimerPerLabel ==
  [][/\ \A i, j \in 1..Len(active_timers') :
          active_timers'[i].label = active_timers'[j].label => i = j
     /\ SetStep =>
          Stored(ActiveTimer(result'.data.label, result'.data.seconds, clock))
     /\ (pending_timer # NoTimer /\ pending_timer' = NoTimer) =>
          Stored(pending_timer)]_vars

\* a set_timer has just replaced the first of two timers: new labels are
\* added at the end, so the timer was there before the second one
C18_Witness ==
  /\ request.func_name = "set_timer" /\ result.success
  /\ Len(active_timers) = 2
  /\ active_timers[1].label = result.data.label
  /\ active_timers[1].start_time = clock
  /\ active_timers[1].duration_seconds = result.data.seconds
  /\ active_timers[2].start_time < clock

\* a step that is a set_timer call whose duration is a phrase that parses to 0
ZeroDurationStep ==
  /\ request = NoRequest /\ request'.func_name = "set_timer"
  /\ request'.params.isdict
  /\ _parse_duration(Chars(Get(request'.params, "duration", ""))) = 0

\* C19: a set_timer whose duration parses to 0 seconds returns a failure and
\* leaves the registry as it was.
C19_ZeroDurationRejected ==
  [][ZeroDurationStep =>
       /\ ~result'.success
       /\ result'.data = None
       /\ active_timers' = active_timers]_vars

\* the phrase "soon" was refused while the registry held a timer
C19_Witness ==
  /\ request.func_name = "set_timer" /\ request.params.duration = "soon"
  /\ result = Failure(<<"Invalid duration: ", "soon">>)
  /\ active_timers # <<>>

\* the timer has no second left (isExpired of the data model)
Expired(timer) == remaining_seconds(timer) = 0

\* the timers of the registry that are not expired, in registry order
Live == SelectSeq(active_timers, LAMBDA timer : ~Expired(timer))

C34_Listed ==
  /\ InfoCall /\ Len(active_timers) = 1
  /\ result.data.timers = TimerEntries(active_timers)
  /\ active_timers[1].duration_seconds = 60
  /\ clock = MaxClock

\* C35: the timer lock is held by no thread that is in a device operation
\* and by no get_system_info that has gone on to its other collaborators, and
\* a set_timer that has built its timer stores it, also when the control_light
\* of another thread never comes back from its discovery or its device call.
C35_TimerLockIsItsOwn ==
  /\ [](light_pc # NotInLight => timer_lock # "light")
  /\ [](info_pc = "query" => timer_lock = "free")
  /\ (pending_timer # NoTimer) ~> (pending_timer = NoTimer)

\* a control_light waits for its discovery, and the registry holds a timer
\* that was built after that control_light began
C35_Witness ==
  /\ light_pc.at = "discover_devices"
  /\ pending_timer = NoTimer
  /\ \E i \in 1..Len(active_timers) :
       active_timers[i].start_time > light_pc.since

(***************************************************************************)
(* Properties of _parse_duration                                           *)
(***************************************************************************)
\* the phrase as the patterns see it
Spoken == Strip(LowerStr(duration_text))

\* the places of cs where a run of digits starts
RunStarts(cs) ==
  { i \in 1..Len(cs) : IsDigit(cs[i]) /\ (i = 1 \/ ~IsDigit(cs[i - 1])) }

\* the integer written by the run of digits that starts at i
RunValue(cs, i) == ToInt(SubSeq(cs, i, SkipDigits(cs, i) - 1))

\* the places where a quantity of the unit starts: a run of digits, white
\* space or none, and the first letter of the unit
QuantityStarts(cs, unit) == { i \in RunStarts(cs) : MatchesAt(cs, i, unit) }

\* the value of the first of the places in starts, 0 when there is none
FirstValue(cs, starts) ==
  IF starts = {} THEN 0
  ELSE RunValue(cs, CHOOSE i \in starts : \A j \in starts : i <= j)

\* the sum of the values at the places in starts
RECURSIVE SumValues(_, _)
SumValues(cs, starts) ==
  IF starts = {} THEN 0
  ELSE LET i == CHOOSE j \in starts : TRUE
       IN  RunValue(cs, i) + SumValues(cs, starts \ {i})

WatchdogTimedOut(w) == pc[w] = "ul_lock" /\ outer[w] = "watchdog"

\* C2 (as claimed): once a watchdog has found the session idle for at least
\* the timeout, the session is moved to Unloaded.
C2_WatchdogUnloads ==
  \A w \in Watchdogs : WatchdogTimedOut(w) ~> (~is_loaded)

\* C3 (as claimed): mark_used on an Unloaded session runs the load sequence
\* and returns to its caller.
C3_MarkUsedReturns ==
  \A t \in Callers :
    (pc[t] = "mu_body" /\ ~is_loaded) ~> (pc[t] = "idle")

\* C4 (as claimed): only the watchdog started last is active; a watchdog
\* started earlier never gets to the timeout check.
C4_OneActiveWatchdog ==
  \A w \in Watchdogs : pc[w] = "wd_elapsed" => w = timeout_thread

\* C5: ensure_loaded on a Loaded session returns success at once, issues no
\* backend request and changes nothing but last_used_time.
C5_FastPathIdempotent ==
  [][\A t \in Callers :
       (pc[t] = "el_check" /\ is_loaded /\ pc'[t] # pc[t]) =>
         /\ pc'[t] = "idle"
         /\ last' = [op |-> "ensure_loaded", ret |-> "True", exc |-> FALSE,
                     io |-> {}]
         /\ last_used_time' = now
         /\ UNCHANGED <<is_loaded, monitoring, timeout_thread, loadsSinceUnload>>
         /\ \A w \in Watchdogs : pc'[w] = pc[w]]_vars

C5_Witness ==
  /\ last = [op |-> "ensure_loaded", ret |-> "True", exc |-> FALSE, io |-> {}]
  /\ is_loaded

\* the positions at which a thread is inside `with self.lock`
CriticalPCs == {"el_check", "el_query", "el_running", "el_load", "el_resp",
                "mu_body", "ul_check", "ul_req", "cs_body",
                "wd_check", "wd_elapsed"}
InCritical(t) == pc[t] \in CriticalPCs \/ (pc[t] \in LockPCs /\ outer[t] # "none")

\* C6: the critical sections exclude each other: a thread inside one holds
\* the lock, so no two threads are inside at once, and no watchdog checks or
\* unloads while a caller is between its load request and its state update.
C6_MutualExclusion ==
  /\ \A t \in Threads : InCritical(t) => lock = t
  /\ \A t, u \in Threads : (InCritical(t) /\ InCritical(u)) => t = u

C6_Witness ==
  \E t \in Callers, w \in Watchdogs : pc[t] = "el_resp" /\ pc[w] = "wd_lock"

\* a load request is about to be sent, or sent and not yet handled
Loading(t) == pc[t] \in {"el_load", "el_resp"}

C8_UnloadUnloads ==
  [][\A t \in Callers :
       (pc[t] = "ul_req" /\ pc'[t] # pc[t]) =>
         /\ "unload" \in last'.io
         /\ ~is_loaded' /\ last_used_time' = NoTime /\ ~monitoring']_vars

\* C8 (amended): when unload returns from a Loaded session the request was
\* issued; if the request did not raise the session is Unloaded, and if it
\* raised the session is left as it was.
C8_UnloadUnloadsUnlessRaised ==
  [][\A t \in Callers :
       (pc[t] = "ul_req" /\ pc'[t] # pc[t]) =>
         /\ pc'[t] = "idle"
         /\ last'.op = "unload" /\ "unload" \in last'.io
         /\ ~last'.exc =>
              (~is_loaded' /\ last_used_time' = NoTime /\ ~monitoring')
         /\ last'.exc =>
              UNCHANGED <<is_loaded, last_used_time, monitoring>>]_vars

C8_Witness ==
  /\ last = [op |-> "unload", ret |-> "None", exc |-> FALSE, io |-> {"unload"}]
  /\ ~is_loaded /\ last_used_time = NoTime /\ ~monitoring

\* C9: when the load request fails (status other than 200, or an exception),
\* ensure_loaded returns failure, the session stays Unloaded and no watchdog
\* is started.
C9_FailedLoadStaysUnloaded ==
  [][\A t \in Callers :
       (pc[t] = "el_resp" /\ response[t] \in {"500", "raise"}
          /\ pc'[t] # pc[t]) =>
         /\ pc'[t] = "idle"
         /\ last'.op = "ensure_loaded" /\ last'.ret = "False"
         /\ ~is_loaded' /\ ~monitoring'
         /\ timeout_thread' = timeout_thread
         /\ \A w \in Watchdogs : pc'[w] = pc[w]]_vars

C9_Witness ==
  /\ last.op = "ensure_loaded" /\ last.ret = "False"
  /\ last.io = {"query", "load"}
  /\ ~is_loaded

\* the backend reports the managed model, under its name or a tagged one
Reported(running_models) ==
  \E m \in running_models : Contains(m, RESPONDER_MODEL)

\* C10: when the running-models list holds the resource, the Unloaded
\* session becomes Loaded with the time stamp set and a new watchdog
\* started, and ensure_loaded returns success without a load request.
C10_AdoptsRunningModel ==
  [][\A t \in Callers :
       (pc[t] = "el_running" /\ Reported(running[t]) /\ pc'[t] # pc[t]) =>
         /\ ~is_loaded /\ is_loaded'
         /\ last_used_time' = now
         /\ monitoring'
         /\ pc[timeout_thread'] = "unborn" /\ pc'[timeout_thread'] = "wd_while"
         /\ pc'[t] = "idle"
         /\ last' = [op |-> "ensure_loaded", ret |-> "True", exc |-> FALSE,
                     io |-> {"query"}]]_vars

C10_Witness ==
  /\ last = [op |-> "ensure_loaded", ret |-> "True", exc |-> FALSE,
             io |-> {"query"}]
  /\ is_loaded /\ monitoring /\ loadsSinceUnload = 0
  /\ timeout_thread \in Watchdogs

\* C25: a session whose time of last use is None is not Loaded: a Loaded
\* session always has a time of last use.
C25_LoadedHasTimestamp ==
  last_used_time = NoTime => ~is_loaded

\* the session was Loaded with a time of last use, and an unload has just
\* cleared both
C25_Witness ==
  /\ last.op = "unload" /\ "unload" \in last.io /\ ~last.exc
  /\ last_used_time = NoTime /\ ~is_loaded

\* the session is Loaded and carries the time of its load
C25_WitnessLoaded ==
  /\ last.op = "ensure_loaded" /\ "load" \in last.io
  /\ is_loaded /\ last_used_time = now /\ now > 0

\* a watchdog thread that was started and has not ended
Alive(w) == pc[w] \notin {"unborn", "dead"}

\* a thread that waits for the lock it holds itself: it never goes on, and
\* the lock is never released
SelfBlocked(t) == pc[t] \in LockPCs /\ lock = t

\* a watchdog that can still get to a check of the idle time: it is alive
\* and the lock it needs is not held for ever
CanCheck(w) == Alive(w) /\ ~(\E t \in Threads : SelfBlocked(t))

\* C26 (as claimed): whenever the session is Loaded the monitoring flag is
\* set and a watchdog thread is running that will check its idle time.
C26_LoadedIsWatched ==
  is_loaded => monitoring /\ \E w \in Watchdogs : CanCheck(w)

\* what does hold: whenever the session is Loaded the monitoring flag is set
\* and a watchdog thread is alive
C26_LoadedHasWatchdog ==
  is_loaded => monitoring /\ \E w \in Watchdogs : Alive(w)

\* the session is Loaded and its watchdog sleeps
C26_Watched ==
  is_loaded /\ monitoring /\ pc[timeout_thread] = "wd_sleep"

\* thread t returns in this step from a mark_used on a Loaded session or
\* from the fast path of ensure_loaded
Refreshes(t) ==
  \/ pc[t] = "mu_body" /\ is_loaded /\ pc'[t] = "idle"
  \/ pc[t] = "el_check" /\ is_loaded /\ pc'[t] # pc[t]

\* watchdog w calls unload("timeout") in this step
TimeoutUnload(w) == pc[w] = "wd_elapsed" /\ pc'[w] = "ul_lock"

\* C27: a mark_used on a Loaded session, and the fast path of ensure_loaded,
\* write the current time as the time of last use; a time of last use is
\* only replaced by a later one while the session stays Loaded; and a
\* watchdog, whenever it was started, calls unload("timeout") only when the
\* timeout has passed since the time of last use. So no watchdog unloads
\* before t + timeout after a use at time t.
C27_DeadlineRefreshed ==
  [][/\ \A t \in Callers : Refreshes(t) => last_used_time' = now
     /\ (is_loaded /\ is_loaded') => last_used_time' >= last_used_time
     /\ \A w \in Watchdogs :
          TimeoutUnload(w) =>
            /\ is_loaded /\ last_used_time # NoTime
            /\ now >= last_used_time + QWEN_TIMEOUT_SECONDS]_vars

\* a mark_used has just refreshed the time of last use of a session whose
\* earlier deadline has passed, while a watchdog started earlier is about to
\* take the lock for its check
C27_Witness ==
  /\ last.op = "mark_used" /\ is_loaded
  /\ last_used_time = now /\ now >= QWEN_TIMEOUT_SECONDS
  /\ \E w \in Watchdogs : w # timeout_thread /\ pc[w] = "wd_lock"

\* a watchdog calls unload("timeout") after a refresh of the time of last use
C27_WitnessUnload ==
  /\ \E w \in Watchdogs : WatchdogTimedOut(w)
  /\ last_used_time > 0

\* the positions whose code reads or writes is_loaded, last_used_time or
\* monitoring: lines 31-33, 40-42, 61-66, 78-83, 88, 94-96, 119, 123-126,
\* 129 and check_status
FieldPCs == {"el_check", "el_running", "el_resp", "mu_body", "ul_check",
             "ul_req", "cs_body", "wd_while", "wd_check", "wd_elapsed"}

\* thread t executes in this step code that reads or writes a session field
FieldAccess(t) == pc[t] \in FieldPCs /\ pc'[t] # pc[t]

\* C28 (as claimed): every read and every write of is_loaded, last_used_time
\* and monitoring, by a caller or by a watchdog, is made by the thread that
\* holds the lock.
C28_FieldsUnderLock ==
  [][\A t \in Threads : FieldAccess(t) => lock = t]_vars

\* what does hold: every write of a session field, and every read but the
\* one of monitoring in the loop condition of the watchdog, is made by the
\* thread that holds the lock
C28_WritesUnderLock ==
  [][/\ \A t \in Threads :
          (FieldAccess(t) /\ pc[t] # "wd_while") => lock = t
     /\ <<is_loaded, last_used_time, monitoring, timeout_thread>>'
          # <<is_loaded, last_used_time, monitoring, timeout_thread>>
        => lock # NoThread /\ pc'[lock] # pc[lock]]_vars

\* unload() was called on an Unloaded session and is at its test of line 88
UnloadOfUnloaded(t) ==
  pc[t] = "ul_check" /\ ~is_loaded /\ pc'[t] # pc[t]

\* C29: unload on a session that is Unloaded returns at once: no request is
\* sent to the backend, and is_loaded, last_used_time, monitoring and the
\* reference to the watchdog thread are left as they were.
C29_UnloadOfUnloadedIsNoOp ==
  [][\A t \in Threads :
       UnloadOfUnloaded(t) =>
         /\ pc'[t] = "idle"
         /\ last' = [op |-> "unload", ret |-> "None", exc |-> FALSE,
                     io |-> {}]
         /\ UNCHANGED <<is_loaded, last_used_time, monitoring,
                        timeout_thread, loadsSinceUnload>>
         /\ \A w \in Watchdogs : pc'[w] = pc[w]]_vars

\* an unload returned without a request on a session that had been Loaded and
\* Unloaded before and still refers to its last watchdog
C29_Witness ==
  /\ last = [op |-> "unload", ret |-> "None", exc |-> FALSE, io |-> {}]
  /\ ~is_loaded /\ last_used_time = NoTime /\ ~monitoring
  /\ timeout_thread # NoThread

\* C36 (as claimed): the lifecycle manager is free of deadlock: whoever
\* holds the session lock, a caller of ensure_loaded, mark_used, unload or
\* check_status or a watchdog in its wake cycle, eventually releases it.
C36_LockIsReleased ==
  \A t \in Threads : (lock = t) ~> (lock # t)

\* what does hold: the lock is only ever held for ever by a thread that
\* waits for it itself
C36_ReleasedUnlessSelfBlocked ==
  \A t \in Threads : (lock = t) ~> (lock # t \/ SelfBlocked(t))

\* the session is as a successful unload leaves it (lines 94-96)
Unloaded == ~is_loaded /\ ~monitoring

\* a call of ensure_loaded or of mark_used is under way
LoadCalled == \E t \in Callers : op[t] \in {"ensure_loaded", "mark_used"}

\* where a watchdog is between the test of its loop and the test of its
\* wake cycle
WakeCyclePCs == {"wd_while", "wd_sleep", "wd_lock", "wd_check"}

\* watchdog w is at the test of its loop, or its sleep of line 120 is over
Awake(w) ==
  \/ pc[w] \in {"wd_while", "wd_lock", "wd_check"}
  \/ pc[w] = "wd_sleep" /\ sleepLeft[w] = 0

\* C37: after an explicit unload that succeeded, and as long as no
\* ensure_loaded or mark_used is called, every watchdog that is still alive is
\* in its current wake cycle, ends at the test of that cycle (line 119 or
\* line 123) and sends no unload request; and once its sleep is over it does
\* get to that end.
C37_WatchdogsEndAfterUnload ==
  /\ [](Unloaded /\ ~LoadCalled =>
          \A w \in Watchdogs : Alive(w) => pc[w] \in WakeCyclePCs)
  /\ [][Unloaded /\ ~LoadCalled =>
          \A w \in Watchdogs :
            /\ pc[w] \in {"wd_while", "wd_check"} /\ pc'[w] # pc[w]
                 => pc'[w] = "dead"
            /\ io'[w] = io[w] /\ pc'[w] # "ul_req"]_vars
  /\ \A w \in Watchdogs :
       (Unloaded /\ Awake(w)) ~> (pc[w] = "dead" \/ LoadCalled)

\* an explicit unload has just succeeded while a watchdog sleeps, and no
\* ensure_loaded or mark_used is under way
C37_Witness ==
  /\ last = [op |-> "unload", ret |-> "None", exc |-> FALSE,
             io |-> {"unload"}]
  /\ Unloaded /\ ~LoadCalled
  /\ \E w \in Watchdogs : pc[w] = "wd_sleep"

\* the watchdog of an explicitly unloaded session has ended at the test of
\* line 123
C37_Ended ==
  /\ Unloaded /\ ~LoadCalled /\ lock = NoThread
  /\ last.op = "unload" /\ "unload" \in last.io
  /\ \E w \in Watchdogs : pc[w] = "dead"

(***************************************************************************)
(* Properties of the settings store                                        *)
(***************************************************************************)
\* the value that the DEFAULT_SETTINGS literal holds for a key path
Literal(key_path) ==
  Lookup(DEFAULT_SETTINGS, LiteralObjects, split(key_path), None)

\* the value that DEFAULT_SETTINGS holds now for a key path
Default(key_path) ==
  Lookup(DEFAULT_SETTINGS, objects, split(key_path), None)

\* C40 (as claimed): after reset_to_defaults, whatever was set before, get
\* returns for every key path the value of the DEFAULT_SETTINGS literal; and
\* no call changes DEFAULT_SETTINGS.
C40_ResetRestoresDefaults ==
  /\ [][settings_call'.op = "reset_to_defaults" =>
          \A key_path \in KeyPaths :
            get(key_path, None)' = Literal(key_path)]_vars
  /\ [](\A o \in DefaultObjects : objects[o] = LiteralObjects[o])

\* what does hold: after reset_to_defaults get returns for every key path
\* the value that DEFAULT_SETTINGS holds at that time
C40_ResetCopiesDefaults ==
  [][settings_call'.op = "reset_to_defaults" =>
       \A key_path \in KeyPaths :
         get(key_path, None)' = Default(key_path)']_vars

\* a reset after set('tts.speed', 2.0) left 2.0 as the speed
C40_SpeedNotRestored ==
  /\ settings_call.op = "reset_to_defaults"
  /\ get("tts.speed", None) = Scalar("2.0")
  /\ Literal("tts.speed") = Scalar("1.1")

====
